---- MODULE Spec2Model ----
(***************************************************************************)
(* Verification model of vaibz99/pdf-ai-tool.                              *)
(*                                                                         *)
(* The programs of the repository are modelled:                            *)
(*   - the single-file viewer App.jsx (src/unnamed/part_001, lines         *)
(*     400-845): document load, index build, page rendering with the       *)
(*     module-level activeRenderTask handle, selection and handleAsk;      *)
(*   - the Express server (src/unnamed/part_003): POST /api/ask with its   *)
(*     validation, response cache and adapters;                            *)
(*   - the question panel of the TypeScript front end (QuestionPanel.tsx,  *)
(*     src/unnamed/part_001 lines 74-399, with the mode state of App.tsx,  *)
(*     src/unnamed/part_002): handleSubmit and the downgrade timeout;      *)
(*   - the viewer of the TypeScript front end (PDFViewer.tsx,              *)
(*     src/src/components/PDFViewer.tsx, with the page, selection and      *)
(*     search state of App.tsx): loadPDF, the render effect, the search    *)
(*     effect, the drag selection and the page controls.                   *)
(*                                                                         *)
(* Execution is a JavaScript event loop: every action below is one         *)
(* run-to-completion step, i.e. the code between two awaits.               *)
(*                                                                         *)
(* Viewer strings are sequences of space-free words (s.split(" ")), a word *)
(* being one character repeated n times: [c |-> "a", n |-> 250].  Every    *)
(* string is exactly one non-empty word list, so join(" ") is              *)
(* concatenation of word lists and lengths are exact.                      *)
(***************************************************************************)
EXTENDS Integers, Sequences, FiniteSets, TLC

VARIABLES
    \* ---- App.jsx component state (part_001:411-429) ----
    pdfDoc,            \* 0 (null) or the loaded document
    currentPage,
    totalPages,
    zoom,              \* in units of 0.2 (1.2 is 6)
    selectionBox,      \* NoBox (null) or [left, top, width, height]
    extractedText,
    question,
    promptPreview,
    answer,
    loading,
    apiKey,
    provider,
    vectorDB,          \* sequence of [text, embedding]
    embedder,          \* FALSE (null) or TRUE (pipeline loaded)
    startPos,          \* NoPos (null) or <<x, y>>
    textCache,         \* page -> NoEntry or [doc, page, scale]
    activeRenderTask,  \* module-level handle: 0 (null) or a render id
    \* ---- environment of the viewer ----
    canvas,            \* what the canvas shows: NoEntry or [doc, page, scale]
    renders,           \* every renderPage invocation so far, with its position
    loads,             \* every loadPdf invocation so far, with its position
    ask,               \* the handleAsk invocation in flight
    \* ---- server state (part_003) ----
    openai,            \* TRUE iff OPENAI_API_KEY configured a client
    anthropic,         \* TRUE iff ANTHROPIC_API_KEY configured a client
    responseCache,     \* NodeCache: the entries, one per key
    now,               \* server clock, seconds
    requests,          \* every /api/ask request so far, with its position
    adapterCalls,      \* the requests that called generateResponse, in order
    \* ---- App.tsx and QuestionPanel.tsx state (part_002, part_001:74-399) ----
    apiMode,           \* App.tsx: "fallback", "openai" or "anthropic"
    storage,           \* localStorage 'pdf-tool-api-mode': "" (absent) or a mode
    selectedText,      \* App.tsx: the excerpt handed to the panel
    panel,             \* QuestionPanel: question, answer, isLoading, error
    submit,            \* the handleSubmit invocation in flight
    timers,            \* the downgrade timeouts set so far: "pending" or "fired"
    \* ---- a call of chunkText on its own (part_001:520-534) ----
    chunker,           \* the text and size given, and the chunks returned
    \* ---- PDFViewer.tsx state (PDFViewer.tsx:39-45) ----
    pdfDocument,       \* 0 (null) or the loaded document
    pageTexts,         \* 0 (the empty Map) or the document whose page texts it holds
    isLoading,
    isDragging,
    dragStart,
    viewerScale,       \* PDFViewer.tsx scale, in quarters (1.5 is 6)
    viewport,          \* NoViewport (null) or the viewport of a scale
    \* ---- App.tsx state used by the viewer (part_002:10-16) ----
    appCurrentPage,    \* App.tsx currentPage
    appTotalPages,     \* App.tsx totalPages
    selection,         \* NoSelection (null) or [x, y, width, height]
    searchQuery,
    searchResults,     \* the pages of the results, in order
    \* ---- environment of PDFViewer.tsx ----
    drawn,             \* what the mounted canvas element shows
    loadPDFs,          \* every loadPDF invocation so far, with its position
    renderPages        \* every renderPage invocation so far, with its position

appVars == <<pdfDoc, currentPage, totalPages, zoom, selectionBox, extractedText,
             question, promptPreview, answer, loading, apiKey, provider, vectorDB,
             embedder, startPos, textCache, activeRenderTask, canvas, renders,
             loads, ask>>
serverVars == <<openai, anthropic, responseCache, now, requests, adapterCalls>>
panelVars == <<apiMode, storage, selectedText, panel, submit, timers>>
chunkVars == <<chunker>>
pdfViewerVars == <<pdfDocument, pageTexts, isLoading, isDragging, dragStart, viewerScale,
                   viewport, appCurrentPage, appTotalPages, selection, searchQuery,
                   searchResults, drawn, loadPDFs, renderPages>>
vars == <<appVars, serverVars, panelVars, chunkVars, pdfViewerVars>>

\* ------------------------------------------------------------------ bounds
NumDocs == 2
MaxLoads == 2
MaxRenders == 3
MaxZoomIn == 1
MaxZoomOut == 0
MaxRequests == 2
MaxClock == 86401
MaxDrift == 1

\* ------------------------------------------------------------------ strings
EmptyWord == [c |-> "", n |-> 0]
EmptyStr == <<EmptyWord>>
W(ch, k) == [c |-> ch, n |-> k]

RECURSIVE SumLen(_)
SumLen(ws) == IF ws = <<>> THEN 0 ELSE Head(ws).n + SumLen(Tail(ws))

\* the length of the words without their separators
JoinLen_NoSeparators(ws) == SumLen(ws)

\* words.join(" ").length; the empty list joins to ""
JoinLen(ws) == IF ws = <<>> THEN 0 ELSE SumLen(ws) + Len(ws) - 1

\* list.join(" ") of a list of strings
RECURSIVE JoinStrs(_)
JoinStrs(list) ==
    IF list = <<>> THEN EmptyStr
    ELSE IF Len(list) = 1 THEN list[1]
    ELSE list[1] \o JoinStrs(Tail(list))

RECURSIVE TrimLeft(_)
TrimLeft(s) == IF Len(s) > 1 /\ s[1].n = 0 THEN TrimLeft(Tail(s)) ELSE s

RECURSIVE TrimRight(_)
TrimRight(s) ==
    IF Len(s) > 1 /\ s[Len(s)].n = 0 THEN TrimRight(SubSeq(s, 1, Len(s) - 1)) ELSE s

\* s.trim(): spaces are the only whitespace of the model's strings
Trim(s) == TrimRight(TrimLeft(s))

\* ------------------------------------------------------------------ documents
Docs == 1 .. NumDocs
PagesPerDoc == 2
PageHeight == 100
DocChar(d) == IF d % 2 = 1 THEN "a" ELSE "b"

\* page.getTextContent().items of page p of document d: each item has its
\* text, the translation of its transform, and its width and height.  The
\* runs come in the order of the content stream: top-down, except on page 2
\* of document 2, which lists its lower run first.
UpperRun(d, p) == [str |-> <<W(DocChar(d), 240 + 10 * p)>>, tx |-> 10, ty |-> 90,
                   width |-> 20, height |-> 10]
LowerRun(d, p) == [str |-> <<W(DocChar(d), 150 + d)>>, tx |-> 10, ty |-> 60,
                   width |-> 20, height |-> 10]
\* Document 3 has one page: a heading of height 20 over four body runs of
\* height 10, and at the foot a run that reports the height 0.
HeadingRun == [str |-> <<W("h", 20)>>, tx |-> 10, ty |-> 80, width |-> 20, height |-> 20]
BodyRun(k) == [str |-> <<W("c", 40 + k)>>, tx |-> 10, ty |-> 80 - 10 * k,
               width |-> 20, height |-> 10]
FlatRun == [str |-> <<W("z", 5)>>, tx |-> 10, ty |-> 20, width |-> 20, height |-> 0]

PageItems(d, p) ==
    IF d = 3 THEN <<HeadingRun, BodyRun(1), BodyRun(2), BodyRun(3), BodyRun(4), FlatRun>>
    ELSE IF d = 2 /\ p = 2 THEN <<LowerRun(d, p), UpperRun(d, p)>>
    ELSE <<UpperRun(d, p), LowerRun(d, p)>>

\* doc.numPages
NumPages(d) == IF d = 3 THEN 1 ELSE PagesPerDoc

NoEntry == [doc |-> 0, page |-> 0, scale |-> 0]
NoBox == [left |-> -1, top |-> -1, width |-> -1, height |-> -1]
NoPos == <<-1, -1>>
NoSelection == [x |-> -1, y |-> -1, width |-> -1, height |-> -1]

\* ------------------------------------------------------------------ chunking
ChunkSize == 400

\* chunkText(text, size), part_001:521-534; text is its own split(" ")
RECURSIVE ChunkLoop(_, _, _, _)
ChunkLoop(words, chunk, chunks, size) ==
    IF words = <<>>
    THEN IF Len(chunk) > 0 THEN Append(chunks, chunk) ELSE chunks
    ELSE LET c == Append(chunk, Head(words))
         IN  IF JoinLen(c) >= size
             THEN ChunkLoop(Tail(words), <<>>, Append(chunks, c), size)
             ELSE ChunkLoop(Tail(words), c, chunks, size)

\* chunkText without the flush of the remainder
chunkText_DropRemainder(text, size) ==
    SelectSeq(ChunkLoop(text, <<>>, <<>>, size), LAMBDA c : JoinLen(c) >= size)

chunkText(text, size) == ChunkLoop(text, <<>>, <<>>, size)

\* textContent.items.map((i) => i.str).join(" ")
PageText(d, p) == JoinStrs([k \in 1 .. Len(PageItems(d, p)) |-> PageItems(d, p)[k].str])

\* The embedding collaborator: a deterministic map from a text to a vector
\* of fixed dimension (here: how many words of each letter the text has).
CountWords(s, ch) == Cardinality({k \in 1 .. Len(s) : s[k].c = ch /\ s[k].n > 0})
Embed(s) == <<CountWords(s, "a"), CountWords(s, "b")>>

\* the semantic index of a document: its chunks with their embeddings,
\* part_001:466-481
DocChunks(d) == chunkText(JoinStrs([p \in 1 .. PagesPerDoc |-> PageText(d, p)]), ChunkSize)
DocIndex(d) == [k \in DOMAIN DocChunks(d) |->
                    [text |-> DocChunks(d)[k], embedding |-> Embed(DocChunks(d)[k])]]

\* ------------------------------------------------------------------ chunkText on its own
\* A text is here the sequence of its characters, letters "a" and spaces.
MaxTextLen == 6
MaxSize == 4

RECURSIVE CharStrings(_)
CharStrings(n) ==
    IF n = 0 THEN {<<>>}
    ELSE LET shorter == CharStrings(n - 1)
         IN  shorter \cup {Append(t, ch) : t \in {u \in shorter : Len(u) = n - 1},
                                            ch \in {"a", " "}}

Letters(n) == IF n = 0 THEN EmptyWord ELSE W("a", n)

\* text.split(" "), part_001:522: the runs of letters between the spaces
RECURSIVE SplitSpaces(_, _, _)
SplitSpaces(chars, run, words) ==
    IF chars = <<>> THEN Append(words, Letters(run))
    ELSE IF Head(chars) = " "
         THEN SplitSpaces(Tail(chars), 0, Append(words, Letters(run)))
         ELSE SplitSpaces(Tail(chars), run + 1, words)

split(chars) == SplitSpaces(chars, 0, <<>>)

WordChars(w) == [k \in 1 .. w.n |-> w.c]

\* list.join(" ") of a list of character strings
RECURSIVE JoinChars(_)
JoinChars(list) ==
    IF list = <<>> THEN <<>>
    ELSE IF Len(list) = 1 THEN list[1]
    ELSE list[1] \o <<" ">> \o JoinChars(Tail(list))

\* chunk.join(" ") of a chunk of words, part_001:527 and 532
ChunkString(chunk) == JoinChars([k \in 1 .. Len(chunk) |-> WordChars(chunk[k])])

NoChunker == [pc |-> "off", text |-> <<>>, size |-> 0, chunks |-> <<>>]

InitChunker == chunker = NoChunker

\* a call of chunkText for any text and any target size
InitChunkerInputs ==
    \E t \in CharStrings(MaxTextLen), n \in 0 .. MaxSize :
        chunker = [pc |-> "called", text |-> t, size |-> n, chunks |-> <<>>]

\* chunkText(text, size) returns, part_001:521-534
ChunkTextReturns ==
    /\ chunker.pc = "called"
    /\ LET chunks == chunkText(split(chunker.text), chunker.size)
       IN  chunker' = [chunker EXCEPT
                          !.pc = "returned",
                          !.chunks = [k \in 1 .. Len(chunks) |-> ChunkString(chunks[k])]]
    /\ UNCHANGED <<appVars, serverVars, panelVars, pdfViewerVars>>

\* ------------------------------------------------------------------ rendering
RenderEntry(r) == [doc |-> r.doc, page |-> r.page, scale |-> r.zoom]

\* an invocation that has ended: only that it ran is kept
GoneRender(pc) == [doc |-> 0, page |-> 0, zoom |-> 0, pc |-> pc]
GoneLoad(pc) == [doc |-> 0, pc |-> pc, embedder |-> FALSE, zoom |-> 0, pages |-> <<>>,
                 chunks |-> <<>>, entries |-> <<>>, render |-> 0]
EndLoad(l, pc) == [GoneLoad(pc) EXCEPT !.doc = l.doc, !.embedder = l.embedder]
LoadEnded(l) == l.pc \in {"done", "failed"}

RenderEnded(r) == r.pc \in {"done", "cancelled", "failed"}

\* the latest request keeps its page, earlier ended ones are forgotten
Forget(rs) ==
    [r \in DOMAIN rs |->
        IF r < Len(rs) /\ RenderEnded(rs[r]) THEN GoneRender(rs[r].pc) ELSE rs[r]]

\* await renderPage(1, doc) of loadPdf, part_001:484-487: loadPdf ends when
\* its render has ended (a cancelled one throws into the catch)
ForgetLoads(ls) ==
    [i \in DOMAIN ls |-> IF i < Len(ls) /\ LoadEnded(ls[i]) THEN GoneLoad(ls[i].pc) ELSE ls[i]]

SettleLoads(ls, rs) ==
    ForgetLoads([i \in DOMAIN ls |->
        IF ls[i].pc = "render" /\ RenderEnded(rs[ls[i].render])
        THEN EndLoad(ls[i], IF rs[ls[i].render].pc = "done" THEN "done" ELSE "failed")
        ELSE ls[i]])

\* activeRenderTask.cancel(): a running task stops drawing and its promise rejects
CancelTask(rs, t) ==
    [r \in DOMAIN rs |->
        IF r = t /\ rs[r].pc = "rendering" THEN [rs[r] EXCEPT !.pc = "cancelled"] ELSE rs[r]]

\* renderPage(pageNum, docOverride) up to its first await, part_001:491-502.
\* doc is docOverride || pdfDoc and z the zoom of the calling closure.
renderPage(pageNum, doc, z) ==
    IF doc = 0
    THEN UNCHANGED <<renders, activeRenderTask>>
    ELSE /\ Len(renders) < MaxRenders
         /\ renders' = Forget(Append(CancelTask(renders, activeRenderTask),
                                     [doc |-> doc, page |-> pageNum, zoom |-> z,
                                      pc |-> "getPage"]))
         /\ activeRenderTask' = 0

\* doc.getPage resolved: the canvas is resized (and so cleared) and the
\* render task starts, part_001:502-512
RenderStart(r) ==
    /\ r \in DOMAIN renders
    /\ renders[r].pc = "getPage"
    /\ renders' = [renders EXCEPT ![r].pc = "rendering"]
    /\ activeRenderTask' = r
    /\ canvas' = NoEntry
    /\ UNCHANGED <<pdfDoc, currentPage, totalPages, zoom, selectionBox, extractedText,
                   question, promptPreview, answer, loading, apiKey, provider, vectorDB,
                   embedder, startPos, textCache, loads, ask, serverVars, panelVars,
                   chunkVars, pdfViewerVars>>

\* doc.getPage resolved while another task is drawing on the canvas, and the
\* renderer refuses a canvas that is in use: the canvas is resized, the handle
\* is set to the refused task, its promise rejects and renderPage throws,
\* part_001:502-512.  A renderer that does not refuse takes RenderStart.
RenderRefused(r) ==
    /\ r \in DOMAIN renders
    /\ renders[r].pc = "getPage"
    /\ \E q \in DOMAIN renders : renders[q].pc = "rendering"
    /\ renders' = Forget([renders EXCEPT ![r].pc = "failed"])
    /\ activeRenderTask' = r
    /\ canvas' = NoEntry
    /\ loads' = SettleLoads(loads, renders')
    /\ UNCHANGED <<pdfDoc, currentPage, totalPages, zoom, selectionBox, extractedText,
                   question, promptPreview, answer, loading, apiKey, provider, vectorDB,
                   embedder, startPos, textCache, ask, serverVars, panelVars,
                   chunkVars, pdfViewerVars>>

\* the render task finished drawing; the handle is reset, part_001:512-516
RenderFinish(r) ==
    /\ r \in DOMAIN renders
    /\ renders[r].pc = "rendering"
    /\ renders' = [renders EXCEPT ![r].pc = "getText"]
    /\ activeRenderTask' = 0
    /\ canvas' = RenderEntry(renders[r])
    /\ UNCHANGED <<pdfDoc, currentPage, totalPages, zoom, selectionBox, extractedText,
                   question, promptPreview, answer, loading, apiKey, provider, vectorDB,
                   embedder, startPos, textCache, loads, ask, serverVars, panelVars,
                   chunkVars, pdfViewerVars>>

\* page.getTextContent resolved: the page's runs are cached, part_001:516-517
RenderCacheText(r) ==
    /\ r \in DOMAIN renders
    /\ renders[r].pc = "getText"
    /\ renders' = Forget([renders EXCEPT ![r].pc = "done"])
    /\ textCache' = [textCache EXCEPT ![renders[r].page] = RenderEntry(renders[r])]
    /\ loads' = SettleLoads(loads, renders')
    /\ UNCHANGED <<pdfDoc, currentPage, totalPages, zoom, selectionBox, extractedText,
                   question, promptPreview, answer, loading, apiKey, provider, vectorDB,
                   embedder, startPos, activeRenderTask, canvas, ask, serverVars, panelVars,
                   chunkVars, pdfViewerVars>>

\* ------------------------------------------------------------------ loadPdf
\* loadPdf(url) up to its first await, part_001:457-460
LoadPdf(d) ==
    /\ Len(loads) < MaxLoads
    /\ loads' = ForgetLoads(Append(loads,
                    [doc |-> d, pc |-> "getDocument", embedder |-> embedder,
                     zoom |-> zoom, pages |-> <<>>, chunks |-> <<>>,
                     entries |-> <<>>, render |-> 0]))
    /\ UNCHANGED <<pdfDoc, currentPage, totalPages, zoom, selectionBox, extractedText,
                   question, promptPreview, answer, loading, apiKey, provider, vectorDB,
                   embedder, startPos, textCache, activeRenderTask, canvas, renders,
                   ask, serverVars, panelVars,
                   chunkVars, pdfViewerVars>>

\* getDocument resolved, part_001:460-466 (and 484 when no embedder was loaded)
LoadDocumentResolved(i) ==
    /\ i \in DOMAIN loads
    /\ loads[i].pc = "getDocument"
    /\ pdfDoc' = loads[i].doc
    /\ totalPages' = NumPages(loads[i].doc)
    /\ currentPage' = 1
    /\ IF loads[i].embedder
       THEN /\ loads' = [loads EXCEPT ![i].pc = "getText"]
            /\ UNCHANGED <<renders, activeRenderTask>>
       ELSE /\ renderPage(1, loads[i].doc, loads[i].zoom)
            /\ loads' = SettleLoads([loads EXCEPT ![i].pc = "render",
                                                  ![i].render = Len(renders) + 1],
                                    renders')
    /\ UNCHANGED <<zoom, selectionBox, extractedText, question, promptPreview, answer,
                   loading, apiKey, provider, vectorDB, embedder, startPos, textCache,
                   canvas, ask, serverVars, panelVars,
                   chunkVars, pdfViewerVars>>

\* getDocument rejected: the catch logs and loadPdf ends, part_001:485-487
LoadDocumentRejected(i) ==
    /\ i \in DOMAIN loads
    /\ loads[i].pc = "getDocument"
    /\ loads' = ForgetLoads([loads EXCEPT ![i] = EndLoad(loads[i], "failed")])
    /\ UNCHANGED <<pdfDoc, currentPage, totalPages, zoom, selectionBox, extractedText,
                   question, promptPreview, answer, loading, apiKey, provider, vectorDB,
                   embedder, startPos, textCache, activeRenderTask, canvas, renders,
                   ask, serverVars, panelVars,
                   chunkVars, pdfViewerVars>>

\* one page of the preload loop; after the last page the text is chunked and
\* the first embedding call is issued, part_001:468-478
LoadPageText(i) ==
    /\ i \in DOMAIN loads
    /\ loads[i].pc = "getText"
    /\ LET l == loads[i]
           pages == Append(l.pages, PageText(l.doc, Len(l.pages) + 1))
       IN  loads' = IF Len(pages) < PagesPerDoc
                    THEN [loads EXCEPT ![i].pages = pages]
                    ELSE [loads EXCEPT ![i].pages = <<>>,
                                       ![i].chunks = chunkText(JoinStrs(pages), ChunkSize),
                                       ![i].pc = "embedding"]
    /\ UNCHANGED <<pdfDoc, currentPage, totalPages, zoom, selectionBox, extractedText,
                   question, promptPreview, answer, loading, apiKey, provider, vectorDB,
                   embedder, startPos, textCache, activeRenderTask, canvas, renders,
                   ask, serverVars, panelVars,
                   chunkVars, pdfViewerVars>>

\* an embedder(chunk) call resolved; after the last one the index is
\* installed and page 1 is rendered, part_001:477-484
LoadEmbedResolved(i) ==
    /\ i \in DOMAIN loads
    /\ loads[i].pc = "embedding"
    /\ LET l == loads[i]
           chunk == l.chunks[Len(l.entries) + 1]
           entries == Append(l.entries, [text |-> chunk, embedding |-> Embed(chunk)])
       IN  IF Len(entries) < Len(l.chunks)
           THEN /\ loads' = [loads EXCEPT ![i].entries = entries]
                /\ UNCHANGED <<vectorDB, renders, activeRenderTask>>
           ELSE /\ vectorDB' = entries
                /\ renderPage(1, l.doc, l.zoom)
                /\ loads' = SettleLoads([loads EXCEPT ![i].entries = <<>>,
                                                      ![i].chunks = <<>>,
                                                      ![i].pc = "render",
                                                      ![i].render = Len(renders) + 1],
                                        renders')
    /\ UNCHANGED <<pdfDoc, currentPage, totalPages, zoom, selectionBox, extractedText,
                   question, promptPreview, answer, loading, apiKey, provider,
                   embedder, startPos, textCache, canvas, ask, serverVars, panelVars,
                   chunkVars, pdfViewerVars>>

\* the pipeline finished loading, part_001:432-438
LoadEmbedder ==
    /\ ~embedder
    /\ embedder' = TRUE
    /\ UNCHANGED <<pdfDoc, currentPage, totalPages, zoom, selectionBox, extractedText,
                   question, promptPreview, answer, loading, apiKey, provider, vectorDB,
                   startPos, textCache, activeRenderTask, canvas, renders, loads, ask,
                   serverVars, panelVars,
                   chunkVars, pdfViewerVars>>

\* ------------------------------------------------------------------ navigation
\* Prev button, part_001:761-767
Prev ==
    /\ currentPage > 1
    /\ renderPage(currentPage - 1, pdfDoc, zoom)
    /\ currentPage' = currentPage - 1
    /\ loads' = SettleLoads(loads, renders')
    /\ UNCHANGED <<pdfDoc, totalPages, zoom, selectionBox, extractedText, question,
                   promptPreview, answer, loading, apiKey, provider, vectorDB, embedder,
                   startPos, textCache, canvas, ask, serverVars, panelVars,
                   chunkVars, pdfViewerVars>>

\* Next button, part_001:771-777
NextPage ==
    /\ currentPage < totalPages
    /\ renderPage(currentPage + 1, pdfDoc, zoom)
    /\ currentPage' = currentPage + 1
    /\ loads' = SettleLoads(loads, renders')
    /\ UNCHANGED <<pdfDoc, totalPages, zoom, selectionBox, extractedText, question,
                   promptPreview, answer, loading, apiKey, provider, vectorDB, embedder,
                   startPos, textCache, canvas, ask, serverVars, panelVars,
                   chunkVars, pdfViewerVars>>

DefaultZoom == 6
MinZoom == 2

\* Zoom In button, part_001:778; renderPage runs in the closure of the old zoom
ZoomIn ==
    /\ zoom < DefaultZoom + MaxZoomIn
    /\ zoom' = zoom + 1
    /\ renderPage(currentPage, pdfDoc, zoom)
    /\ loads' = SettleLoads(loads, renders')
    /\ UNCHANGED <<pdfDoc, currentPage, totalPages, selectionBox, extractedText, question,
                   promptPreview, answer, loading, apiKey, provider, vectorDB, embedder,
                   startPos, textCache, canvas, ask, serverVars, panelVars,
                   chunkVars, pdfViewerVars>>

\* Zoom Out button, part_001:779
ZoomOut ==
    /\ zoom > DefaultZoom - MaxZoomOut
    /\ zoom' = IF zoom - 1 > MinZoom THEN zoom - 1 ELSE MinZoom
    /\ renderPage(currentPage, pdfDoc, zoom)
    /\ loads' = SettleLoads(loads, renders')
    /\ UNCHANGED <<pdfDoc, currentPage, totalPages, selectionBox, extractedText, question,
                   promptPreview, answer, loading, apiKey, provider, vectorDB, embedder,
                   startPos, textCache, canvas, ask, serverVars, panelVars,
                   chunkVars, pdfViewerVars>>

\* Reset Zoom button, part_001:780
ResetZoom ==
    /\ zoom' = DefaultZoom
    /\ renderPage(currentPage, pdfDoc, zoom)
    /\ loads' = SettleLoads(loads, renders')
    /\ UNCHANGED <<pdfDoc, currentPage, totalPages, selectionBox, extractedText, question,
                   promptPreview, answer, loading, apiKey, provider, vectorDB, embedder,
                   startPos, textCache, canvas, ask, serverVars, panelVars,
                   chunkVars, pdfViewerVars>>

\* ------------------------------------------------------------------ selection
Points == {<<0, 0>>, <<40, 30>>, <<40, 70>>}

Min(a, b) == IF a < b THEN a ELSE b
Max(a, b) == IF a > b THEN a ELSE b
Abs(a) == IF a < 0 THEN -a ELSE a

\* onMouseDown, part_001:537-541
onMouseDown(p) ==
    /\ startPos' = p
    /\ selectionBox' = [left |-> p[1], top |-> p[2], width |-> 0, height |-> 0]
    /\ UNCHANGED <<pdfDoc, currentPage, totalPages, zoom, extractedText, question,
                   promptPreview, answer, loading, apiKey, provider, vectorDB, embedder,
                   textCache, activeRenderTask, canvas, renders, loads, ask, serverVars, panelVars,
                   chunkVars, pdfViewerVars>>

\* onMouseMove, part_001:543-554
onMouseMove(p) ==
    /\ startPos # NoPos
    /\ selectionBox' = [left |-> Min(startPos[1], p[1]), top |-> Min(startPos[2], p[2]),
                        width |-> Abs(p[1] - startPos[1]),
                        height |-> Abs(p[2] - startPos[2])]
    /\ UNCHANGED <<pdfDoc, currentPage, totalPages, zoom, extractedText, question,
                   promptPreview, answer, loading, apiKey, provider, vectorDB, embedder,
                   startPos, textCache, activeRenderTask, canvas, renders, loads, ask,
                   serverVars, panelVars,
                   chunkVars, pdfViewerVars>>

\* Canvas-space lengths are kept in fifths of a pixel, so that a scale of
\* zoom/5 stays in the integers: the box of an item under a cached viewport,
\* part_001:571-575 (x = tx[4], y = tx[5] - height, width scaled, height not).
ItemBox(item, scale) ==
    [x |-> scale * item.tx,
     y |-> scale * (PageHeight - item.ty) - 5 * item.height,
     width |-> scale * item.width,
     height |-> 5 * item.height]

\* getOverlap(a, b), part_001:587-591, a in pixels, b in fifths; in 25ths
getOverlap(a, b) ==
    LET xOverlap == Max(0, Min(5 * (a.left + a.width), b.x + b.width) - Max(5 * a.left, b.x))
        yOverlap == Max(0, Min(5 * (a.top + a.height), b.y + b.height) - Max(5 * a.top, b.y))
    IN  xOverlap * yOverlap

\* coverage >= 0.3, part_001:577-578; 0/0 is NaN and compares false
Covered(sel, box) ==
    /\ box.width * box.height # 0
    /\ 10 * getOverlap(sel, box) >= 3 * box.width * box.height

RECURSIVE SelectedItems(_, _, _)
SelectedItems(items, sel, scale) ==
    IF items = <<>> THEN <<>>
    ELSE (IF Covered(sel, ItemBox(Head(items), scale)) THEN <<Head(items).str>> ELSE <<>>)
         \o SelectedItems(Tail(items), sel, scale)

\* the text extractFromSelection sets, part_001:567-583
ExtractText(sel, entry) ==
    Trim(JoinStrs(SelectedItems(PageItems(entry.doc, entry.page), sel, entry.scale)))

\* ------------------------------------------------------------------ prompts
\* A prompt is the list of its sections, in the order they were appended.
\* The instruction of the preview is worded differently from the one of the
\* prompt handleAsk sends.
\* the preview effect, part_001:441-454
Preview(text, q) ==
    IF q = EmptyStr THEN <<>>
    ELSE (IF Trim(text) # EmptyStr THEN <<[section |-> "primary", text |-> <<Trim(text)>>]>>
          ELSE <<>>)
         \o <<[section |-> "question", text |-> <<q>>],
              [section |-> "instruction of the preview", text |-> <<>>]>>

\* extractFromSelection as called by onMouseUp, part_001:563-584
extractFromSelection ==
    IF selectionBox = NoBox \/ textCache[currentPage] = NoEntry
    THEN UNCHANGED <<extractedText, promptPreview>>
    ELSE /\ extractedText' = ExtractText(selectionBox, textCache[currentPage])
         /\ promptPreview' = IF extractedText' # extractedText
                             THEN Preview(extractedText', question)
                             ELSE promptPreview

\* onMouseUp, part_001:556-560
onMouseUp ==
    /\ startPos # NoPos
    /\ extractFromSelection
    /\ startPos' = NoPos
    /\ UNCHANGED <<pdfDoc, currentPage, totalPages, zoom, selectionBox, question,
                   answer, loading, apiKey, provider, vectorDB, embedder,
                   textCache, activeRenderTask, canvas, renders, loads, ask, serverVars, panelVars,
                   chunkVars, pdfViewerVars>>

\* ------------------------------------------------------------------ ranking
\* A similarity is kept exactly as num / sqrt(den), den > 0.
Zero == [num |-> 0, den |-> 1]

Dot(u, v) == u[1] * v[1] + u[2] * v[2]

\* cosineSimilarity(vecA, vecB), part_001:594-599
cosineSimilarity(vecA, vecB) ==
    IF Dot(vecA, vecA) = 0 \/ Dot(vecB, vecB) = 0 THEN Zero
    ELSE [num |-> Dot(vecA, vecB), den |-> Dot(vecA, vecA) * Dot(vecB, vecB)]

\* a < b for two similarities
ScoreLess(a, b) ==
    IF a.num < 0 /\ b.num >= 0 THEN TRUE
    ELSE IF a.num >= 0 /\ b.num < 0 THEN FALSE
    ELSE IF a.num >= 0 THEN a.num * a.num * b.den < b.num * b.num * a.den
    ELSE a.num * a.num * b.den > b.num * b.num * a.den

\* score * 1.1
Boost(a) == [num |-> 11 * a.num, den |-> 100 * a.den]

\* Math.max(a, b)
ScoreMax(a, b) == IF ScoreLess(a, b) THEN b ELSE a

\* combined[text] || 0
OrZero(a) == IF a.num = 0 THEN Zero ELSE a

Digits == {"0", "1", "2", "3", "4", "5", "6", "7", "8", "9"}

\* an object key that is a canonical array index (below 2^32 - 1)
IsIndexKey(t) ==
    /\ Len(t) = 1
    /\ t[1].c \in Digits
    /\ t[1].n >= 1
    /\ t[1].c = "0" => t[1].n = 1
    /\ t[1].n <= 9 \/ (t[1].n = 10 /\ t[1].c \in {"1", "2", "3"})

DigitVal(ch) == CHOOSE k \in 0 .. 9 : ch = <<"0", "1", "2", "3", "4", "5", "6", "7", "8", "9">>[k + 1]

\* numeric order of two index keys (repeated digits)
IndexKeyLess(t, u) ==
    \/ t[1].n < u[1].n
    \/ t[1].n = u[1].n /\ DigitVal(t[1].c) < DigitVal(u[1].c)

\* the texts of the index in first-occurrence order (the insertion order of
\* the keys of `combined`, part_001:620-624)
RECURSIVE KeysOf(_, _)
KeysOf(db, seen) ==
    IF db = <<>> THEN <<>>
    ELSE IF Head(db).text \in seen THEN KeysOf(Tail(db), seen)
    ELSE <<Head(db).text>> \o KeysOf(Tail(db), seen \cup {Head(db).text})

RECURSIVE InsertKey(_, _)
InsertKey(sorted, t) ==
    IF sorted = <<>> THEN <<t>>
    ELSE IF IndexKeyLess(t, Head(sorted)) THEN <<t>> \o sorted
    ELSE <<Head(sorted)>> \o InsertKey(Tail(sorted), t)

RECURSIVE SortIndexKeys(_)
SortIndexKeys(ks) ==
    IF ks = <<>> THEN <<>> ELSE InsertKey(SortIndexKeys(Tail(ks)), Head(ks))

IndexKeys(ks) == SelectSeq(ks, IsIndexKey)
OtherKeys(ks) == SelectSeq(ks, LAMBDA t : ~IsIndexKey(t))

\* the key order of Object.entries(combined), part_001:639: index keys in
\* ascending numeric order, then the other keys in insertion order
EntriesOrder(db) ==
    LET ks == KeysOf(db, {}) IN SortIndexKeys(IndexKeys(ks)) \o OtherKeys(ks)

\* the last entry of the index with this text decides combined[text]
LastWith(db, t) == db[CHOOSE k \in DOMAIN db :
                        /\ db[k].text = t
                        /\ \A j \in DOMAIN db : db[j].text = t => j <= k]

\* combined[text] after both passes, part_001:615-637
CombinedScore(db, t, qVec, hasSel, selVec) ==
    LET e == LastWith(db, t)
        q == cosineSimilarity(qVec, e.embedding)
    IN  IF hasSel
        THEN ScoreMax(OrZero(q), Boost(cosineSimilarity(selVec, e.embedding)))
        ELSE q

\* combinedArray.sort((a, b) => b.score - a.score): stable, descending
RECURSIVE InsertDesc(_, _)
InsertDesc(sorted, e) ==
    IF sorted = <<>> THEN <<e>>
    ELSE IF ScoreLess(Head(sorted).score, e.score) THEN <<e>> \o sorted
    ELSE <<Head(sorted)>> \o InsertDesc(Tail(sorted), e)

RECURSIVE SortDesc(_, _)
SortDesc(arr, acc) ==
    IF arr = <<>> THEN acc ELSE SortDesc(Tail(arr), InsertDesc(acc, Head(arr)))

\* the entries of `combined` taken as they come, without the sort
combinedArray_Unsorted(db, qVec, hasSel, selVec) ==
    LET ks == EntriesOrder(db)
    IN  [k \in 1 .. Len(ks) |->
            [text |-> ks[k], score |-> CombinedScore(db, ks[k], qVec, hasSel, selVec)]]

\* combinedArray after the sort, part_001:639-640
combinedArray(db, qVec, hasSel, selVec) ==
    LET ks == EntriesOrder(db)
    IN  SortDesc([k \in 1 .. Len(ks) |->
                    [text |-> ks[k],
                     score |-> CombinedScore(db, ks[k], qVec, hasSel, selVec)]], <<>>)

TopK == 3

\* the supplement loop, part_001:643-648
RECURSIVE PickSupplements(_, _, _)
PickSupplements(arr, primaryExcerpt, acc) ==
    IF arr = <<>> \/ Len(acc) >= TopK THEN acc
    ELSE IF primaryExcerpt # EmptyStr /\ Head(arr).text = primaryExcerpt
         THEN PickSupplements(Tail(arr), primaryExcerpt, acc)
         ELSE PickSupplements(Tail(arr), primaryExcerpt, Append(acc, Head(arr).text))

\* the supplement loop without the test against the primary excerpt
Supplements_KeepPrimary(db, q, primaryExcerpt) ==
    PickSupplements(combinedArray(db, Embed(q), primaryExcerpt # EmptyStr,
                                  Embed(primaryExcerpt)),
                    EmptyStr, <<>>)

\* supplements of handleAsk for an index, a question and an excerpt
Supplements(db, q, primaryExcerpt) ==
    PickSupplements(combinedArray(db, Embed(q), primaryExcerpt # EmptyStr,
                                  Embed(primaryExcerpt)),
                    primaryExcerpt, <<>>)

\* supplementaryText is supplements.join("\n\n"), kept as the list itself;
\* it is the empty string iff nothing or one empty text was joined
SuppTruthy(supp) == supp # <<>> /\ supp # <<EmptyStr>>

\* a prompt that always carries a supplementary section
BuildPrompt_AlwaysSupplementary(primaryExcerpt, supp, q) ==
    (IF primaryExcerpt # EmptyStr
     THEN <<[section |-> "primary", text |-> <<primaryExcerpt>>]>> ELSE <<>>)
    \o <<[section |-> "supplementary", text |-> supp],
         [section |-> "question", text |-> <<q>>],
         [section |-> "instruction", text |-> <<>>]>>

\* the prompt of handleAsk, part_001:654-663
BuildPrompt(primaryExcerpt, supp, q) ==
    (IF primaryExcerpt # EmptyStr
     THEN <<[section |-> "primary", text |-> <<primaryExcerpt>>]>> ELSE <<>>)
    \o (IF SuppTruthy(supp) THEN <<[section |-> "supplementary", text |-> supp]>> ELSE <<>>)
    \o <<[section |-> "question", text |-> <<q>>],
         [section |-> "instruction", text |-> <<>>]>>

SliceLen == 120

\* the stand-in responder, part_001:669-677; slice(0, 120) is kept symbolic
StandInAnswer(primaryExcerpt, supp) ==
    IF primaryExcerpt # EmptyStr
    THEN [kind |-> IF SuppTruthy(supp) THEN "excerpt plus related context" ELSE "excerpt",
          of |-> <<primaryExcerpt>>, upto |-> SliceLen]
    ELSE IF SuppTruthy(supp)
    THEN [kind |-> "relevant parts", of |-> supp, upto |-> SliceLen]
    ELSE [kind |-> "not enough information", of |-> <<>>, upto |-> 0]

NoAnswer == [kind |-> "", of |-> <<>>, upto |-> 0]
RemoteAnswer(prov) == [kind |-> prov, of |-> <<>>, upto |-> 0]
NoResponse == [kind |-> "No response from model.", of |-> <<>>, upto |-> 0]

\* ------------------------------------------------------------------ handleAsk
Questions == {EmptyStr, <<W("a", 4)>>, <<W("b", 4)>>}
ApiKeys == {"", "gsk"}
Providers == {"groq", "gemini"}

Idle == [pc |-> "idle", question |-> EmptyStr, primaryExcerpt |-> EmptyStr,
         vectorDB |-> <<>>, apiKey |-> "", provider |-> "groq", supp |-> <<>>,
         to |-> ""]

\* the responder handleAsk turns to, part_001:669-694: the stand-in without a
\* key, else the endpoint of the selected provider
Responder_KeyIgnored(key, prov) == prov

Responder(key, prov) == IF key = "" THEN "stand-in" ELSE prov

\* from the prompt build to the await of the responder, part_001:654-707
Dispatch(a, supp) ==
    /\ promptPreview' = BuildPrompt(a.primaryExcerpt, supp, a.question)
    /\ ask' = [a EXCEPT !.pc = IF Responder(a.apiKey, a.provider) = "stand-in"
                                THEN "delay" ELSE "fetch",
                        !.to = Responder(a.apiKey, a.provider),
                        !.supp = supp, !.vectorDB = <<>>]

\* the Ask button (disabled while loading), part_001:602-611 and 834
handleAsk ==
    /\ ~loading
    /\ question # EmptyStr
    /\ loading' = TRUE
    /\ LET a == [pc |-> "embedQ", question |-> question,
                 primaryExcerpt |-> Trim(extractedText), vectorDB |-> vectorDB,
                 apiKey |-> apiKey, provider |-> provider, supp |-> <<>>,
                 to |-> ""]
       IN  IF Len(vectorDB) > 0 /\ embedder
           THEN ask' = a /\ UNCHANGED promptPreview
           ELSE Dispatch(a, <<>>)
    /\ UNCHANGED <<pdfDoc, currentPage, totalPages, zoom, selectionBox, extractedText,
                   question, answer, apiKey, provider, vectorDB, embedder, startPos,
                   textCache, activeRenderTask, canvas, renders, loads, serverVars, panelVars,
                   chunkVars, pdfViewerVars>>

\* embedder(question) resolved, part_001:611-628
AskQuestionEmbedded ==
    /\ ask.pc = "embedQ"
    /\ IF ask.primaryExcerpt # EmptyStr
       THEN ask' = [ask EXCEPT !.pc = "embedSel"] /\ UNCHANGED promptPreview
       ELSE Dispatch(ask, Supplements(ask.vectorDB, ask.question, EmptyStr))
    /\ UNCHANGED <<pdfDoc, currentPage, totalPages, zoom, selectionBox, extractedText,
                   question, answer, loading, apiKey, provider, vectorDB, embedder,
                   startPos, textCache, activeRenderTask, canvas, renders, loads,
                   serverVars, panelVars,
                   chunkVars, pdfViewerVars>>

\* embedder(primaryExcerpt) resolved, part_001:628-665
AskExcerptEmbedded ==
    /\ ask.pc = "embedSel"
    /\ Dispatch(ask, Supplements(ask.vectorDB, ask.question, ask.primaryExcerpt))
    /\ UNCHANGED <<pdfDoc, currentPage, totalPages, zoom, selectionBox, extractedText,
                   question, answer, loading, apiKey, provider, vectorDB, embedder,
                   startPos, textCache, activeRenderTask, canvas, renders, loads,
                   serverVars, panelVars,
                   chunkVars, pdfViewerVars>>

\* the stand-in delay elapsed, part_001:669-677 and 709-710
AskStandIn ==
    /\ ask.pc = "delay"
    /\ answer' = StandInAnswer(ask.primaryExcerpt, ask.supp)
    /\ loading' = FALSE
    /\ ask' = Idle
    /\ UNCHANGED <<pdfDoc, currentPage, totalPages, zoom, selectionBox, extractedText,
                   question, promptPreview, apiKey, provider, vectorDB, embedder,
                   startPos, textCache, activeRenderTask, canvas, renders, loads,
                   serverVars, panelVars,
                   chunkVars, pdfViewerVars>>

\* the provider's reply arrived, with or without content, part_001:678-710
AskRemoteReply(content) ==
    /\ ask.pc = "fetch"
    /\ answer' = IF content THEN RemoteAnswer(ask.to) ELSE NoResponse
    /\ loading' = FALSE
    /\ ask' = Idle
    /\ UNCHANGED <<pdfDoc, currentPage, totalPages, zoom, selectionBox, extractedText,
                   question, promptPreview, apiKey, provider, vectorDB, embedder,
                   startPos, textCache, activeRenderTask, canvas, renders, loads,
                   serverVars, panelVars,
                   chunkVars, pdfViewerVars>>

\* an awaited call of handleAsk rejected: nothing catches it, part_001:602-711
AskRejected ==
    /\ ask.pc \in {"embedQ", "embedSel", "fetch"}
    /\ ask' = [ask EXCEPT !.pc = "failed"]
    /\ UNCHANGED <<pdfDoc, currentPage, totalPages, zoom, selectionBox, extractedText,
                   question, promptPreview, answer, loading, apiKey, provider, vectorDB,
                   embedder, startPos, textCache, activeRenderTask, canvas, renders,
                   loads, serverVars, panelVars,
                   chunkVars, pdfViewerVars>>

\* typing in the question input, part_001:821-827, and the preview effect
SetQuestion(q) ==
    /\ q # question
    /\ question' = q
    /\ promptPreview' = Preview(extractedText, q)
    /\ UNCHANGED <<pdfDoc, currentPage, totalPages, zoom, selectionBox, extractedText,
                   answer, loading, apiKey, provider, vectorDB, embedder, startPos,
                   textCache, activeRenderTask, canvas, renders, loads, ask, serverVars, panelVars,
                   chunkVars, pdfViewerVars>>

\* the key input and the provider select, part_001:729-741
SetApiKey(k) ==
    /\ k # apiKey
    /\ apiKey' = k
    /\ UNCHANGED <<pdfDoc, currentPage, totalPages, zoom, selectionBox, extractedText,
                   question, promptPreview, answer, loading, provider, vectorDB, embedder,
                   startPos, textCache, activeRenderTask, canvas, renders, loads, ask,
                   serverVars, panelVars,
                   chunkVars, pdfViewerVars>>

SetProvider(p) ==
    /\ p # provider
    /\ provider' = p
    /\ UNCHANGED <<pdfDoc, currentPage, totalPages, zoom, selectionBox, extractedText,
                   question, promptPreview, answer, loading, apiKey, vectorDB, embedder,
                   startPos, textCache, activeRenderTask, canvas, renders, loads, ask,
                   serverVars, panelVars,
                   chunkVars, pdfViewerVars>>

\* the Clear button, part_001:713-719
clearAll ==
    /\ selectionBox' = NoBox
    /\ extractedText' = EmptyStr
    /\ question' = EmptyStr
    /\ promptPreview' = <<>>
    /\ answer' = NoAnswer
    /\ UNCHANGED <<pdfDoc, currentPage, totalPages, zoom, loading, apiKey, provider,
                   vectorDB, embedder, startPos, textCache, activeRenderTask, canvas,
                   renders, loads, ask, serverVars, panelVars,
                   chunkVars, pdfViewerVars>>

\* ------------------------------------------------------------------ question panel
MaxTimers == 2

Modes == {"fallback", "openai", "anthropic"}
PanelTexts == {EmptyStr, <<EmptyWord, EmptyWord>>, <<W("a", 4)>>}

NullAnswer == [source |-> "", context |-> EmptyStr]
NoSubmit == [pc |-> "idle", apiMode |-> "fallback", selectedText |-> EmptyStr]

\* generateFallbackResponse(context, question), part_001:18-73: every branch
\* answers from the context with the source 'Demo Mode'
generateFallbackResponse(context) == [source |-> "Demo Mode", context |-> context]

\* the body of a 2xx reply of /api/ask, part_001:136-137
RemoteReply(context) == [source |-> "remote", context |-> context]

\* typing in the question box, part_001:281-288
PanelSetQuestion(q) ==
    /\ q # panel.question
    /\ panel' = [panel EXCEPT !.question = q]
    /\ UNCHANGED <<apiMode, storage, selectedText, submit, timers, appVars, serverVars,
                   chunkVars, pdfViewerVars>>

\* the viewer hands over an excerpt, or clears it: setSelectedText, part_002:115
setSelectedText(t) ==
    /\ t # selectedText
    /\ selectedText' = t
    /\ UNCHANGED <<apiMode, storage, panel, submit, timers, appVars, serverVars,
                   chunkVars, pdfViewerVars>>

\* handleApiModeChange without the write to localStorage
handleApiModeChange_NotStored(mode) ==
    /\ apiMode' = mode
    /\ UNCHANGED storage

\* handleApiModeChange(mode), part_002:43-46
handleApiModeChange(mode) ==
    /\ apiMode' = mode
    /\ storage' = mode

\* a mode radio button, part_001:213-238
onApiModeChange(mode) ==
    /\ mode # apiMode
    /\ handleApiModeChange(mode)
    /\ UNCHANGED <<selectedText, panel, submit, timers, appVars, serverVars,
                   chunkVars, pdfViewerVars>>

\* a submit event of the form, part_001:96-133; one invocation at a time, the
\* button being disabled while isLoading
handleSubmit ==
    /\ ~panel.isLoading
    /\ submit.pc = "idle"
    /\ IF Trim(selectedText) = EmptyStr
       THEN /\ panel' = [panel EXCEPT !.error = "Please select some text from the PDF first"]
            /\ UNCHANGED submit
       ELSE IF Trim(panel.question) = EmptyStr
       THEN /\ panel' = [panel EXCEPT !.error = "Please enter a question"]
            /\ UNCHANGED submit
       ELSE /\ apiMode # "fallback" => Len(timers) < MaxTimers
            /\ panel' = [panel EXCEPT !.isLoading = TRUE, !.error = "", !.answer = NullAnswer]
            /\ submit' = [pc |-> IF apiMode = "fallback" THEN "standin" ELSE "fetch",
                          apiMode |-> apiMode, selectedText |-> selectedText]
    /\ UNCHANGED <<apiMode, storage, selectedText, timers, appVars, serverVars,
                   chunkVars, pdfViewerVars>>

\* generateFallbackResponse resolved, part_001:116-118 and 152-154
SubmitStandIn ==
    /\ submit.pc = "standin"
    /\ panel' = [panel EXCEPT !.answer = generateFallbackResponse(submit.selectedText),
                              !.isLoading = FALSE]
    /\ submit' = NoSubmit
    /\ UNCHANGED <<apiMode, storage, selectedText, timers, appVars, serverVars,
                   chunkVars, pdfViewerVars>>

\* the catch and finally blocks of handleSubmit, part_001:139-154; apiMode is
\* the mode the invocation was started with
Caught ==
    /\ IF submit.apiMode # "fallback"
       THEN /\ panel' = [panel EXCEPT !.error = "Switching to demo mode...",
                                      !.isLoading = FALSE]
            /\ timers' = Append(timers, "pending")
       ELSE /\ panel' = [panel EXCEPT !.error = "Failed to get answer",
                                      !.isLoading = FALSE]
            /\ UNCHANGED timers
    /\ submit' = NoSubmit

\* fetch('/api/ask') resolved with a reply, part_001:120-137
SubmitFetchResolved(ok) ==
    /\ submit.pc = "fetch"
    /\ IF ok
       THEN submit' = [submit EXCEPT !.pc = "json"] /\ UNCHANGED <<panel, timers>>
       ELSE Caught
    /\ UNCHANGED <<apiMode, storage, selectedText, appVars, serverVars,
                   chunkVars, pdfViewerVars>>

\* fetch('/api/ask') rejected: the endpoint cannot be reached
SubmitFetchRejected ==
    /\ submit.pc = "fetch"
    /\ Caught
    /\ UNCHANGED <<apiMode, storage, selectedText, appVars, serverVars,
                   chunkVars, pdfViewerVars>>

\* response.json() resolved, part_001:136-137 and 152-154
SubmitJsonResolved ==
    /\ submit.pc = "json"
    /\ panel' = [panel EXCEPT !.answer = RemoteReply(submit.selectedText),
                              !.isLoading = FALSE]
    /\ submit' = NoSubmit
    /\ UNCHANGED <<apiMode, storage, selectedText, timers, appVars, serverVars,
                   chunkVars, pdfViewerVars>>

\* response.json() rejected: the body is not JSON
SubmitJsonRejected ==
    /\ submit.pc = "json"
    /\ Caught
    /\ UNCHANGED <<apiMode, storage, selectedText, appVars, serverVars,
                   chunkVars, pdfViewerVars>>

\* the timeout set by the catch block fires, part_001:145-148
DowngradeTimer(t) ==
    /\ t \in DOMAIN timers
    /\ timers[t] = "pending"
    /\ \A u \in 1 .. t - 1 : timers[u] = "fired"
    /\ handleApiModeChange("fallback")
    /\ panel' = [panel EXCEPT !.error = ""]
    /\ timers' = [timers EXCEPT ![t] = "fired"]
    /\ UNCHANGED <<selectedText, submit, appVars, serverVars,
                   chunkVars, pdfViewerVars>>

\* the Clear button of the panel, part_001:166-172, with clearAllState of
\* App.tsx, part_002:54-59
panelClearAll ==
    /\ panel' = [panel EXCEPT !.question = EmptyStr, !.answer = NullAnswer, !.error = ""]
    /\ selectedText' = EmptyStr
    /\ selection' = NoSelection
    /\ UNCHANGED <<apiMode, storage, submit, timers, appVars, serverVars, chunkVars,
                   pdfDocument, pageTexts, isLoading, isDragging, dragStart, viewerScale,
                   viewport, appCurrentPage, appTotalPages, searchQuery, searchResults,
                   drawn, loadPDFs, renderPages>>

\* ------------------------------------------------------------------ PDFViewer.tsx
\* The documents the TypeScript viewer is given: document 1 (also served as
\* /sample.pdf) and document 3.
TsDocs == {1, 3}
SampleDoc == 1
MaxTsLoads == 3
MaxTsRenders == 2
MaxPageInput == 3
DefaultScale == 6
MaxScale == 12
MinScale == 2
MaxZoomSteps == 1

NoViewport == [scale |-> 0]
NoDrag == <<0, 0>>

\* page.getViewport({ scale }).height, scale in quarters
ViewportHeight(vp) == (PageHeight * vp.scale) \div 4

tsRest == <<apiMode, storage, panel, submit, timers, appVars, serverVars, chunkVars>>

\* after construction and the mount effects, PDFViewer.tsx:39-45 and 160-164
\* with part_002:10-16: loadPDF('/sample.pdf') is awaiting getDocument
InitPdfViewer ==
    /\ pdfDocument = 0
    /\ pageTexts = 0
    /\ isLoading = TRUE
    /\ isDragging = FALSE
    /\ dragStart = NoDrag
    /\ viewerScale = DefaultScale
    /\ viewport = NoViewport
    /\ appCurrentPage = 1
    /\ appTotalPages = 0
    /\ selection = NoSelection
    /\ searchQuery = EmptyStr
    /\ searchResults = <<>>
    /\ drawn = NoEntry
    /\ loadPDFs = <<[doc |-> SampleDoc, pc |-> "getDocument"]>>
    /\ renderPages = <<>>

\* The render effect, PDFViewer.tsx:167-190, run after a commit that changed
\* pdfDocument, currentPage or scale: it returns when there is no document or
\* no canvas (the canvas is not mounted while isLoading, PDFViewer.tsx:335),
\* else it starts renderPage, which awaits getPage.
RenderEffect(doc, page, sc) ==
    IF doc = 0 \/ isLoading THEN renderPages
    ELSE Append(renderPages, [doc |-> doc, page |-> page, scale |-> sc, el |-> 0,
                              pc |-> "getPage"])

Without(seq, k) == SubSeq(seq, 1, k - 1) \o SubSeq(seq, k + 1, Len(seq))

\* getPage resolved or rejected, PDFViewer.tsx:171-186: a page the document
\* does not have is rejected, and without a canvas getContext throws; else
\* the viewport is set and the render starts on the canvas element mounted
\* now (el; a new element is mounted after every load)
RenderGotPage(r) ==
    /\ r \in DOMAIN renderPages
    /\ renderPages[r].pc = "getPage"
    /\ IF renderPages[r].page \notin 1 .. NumPages(renderPages[r].doc) \/ isLoading
       THEN /\ renderPages' = Without(renderPages, r)
            /\ UNCHANGED viewport
       ELSE /\ renderPages' = [renderPages EXCEPT ![r].pc = "render",
                                                  ![r].el = Len(loadPDFs)]
            /\ viewport' = [scale |-> renderPages[r].scale]
    /\ UNCHANGED <<pdfDocument, pageTexts, isLoading, isDragging, dragStart, viewerScale,
                   appCurrentPage, appTotalPages, selection, searchQuery, searchResults,
                   drawn, loadPDFs, selectedText, tsRest>>

\* page.render(...).promise resolved, PDFViewer.tsx:186: the page is on the
\* canvas element the render took, if that element is still mounted
RenderPainted(r) ==
    /\ r \in DOMAIN renderPages
    /\ renderPages[r].pc = "render"
    /\ renderPages' = Without(renderPages, r)
    /\ drawn' = IF renderPages[r].el = Len(loadPDFs) /\ ~isLoading
                THEN [doc |-> renderPages[r].doc, page |-> renderPages[r].page,
                      scale |-> renderPages[r].scale]
                ELSE drawn
    /\ UNCHANGED <<pdfDocument, pageTexts, isLoading, isDragging, dragStart, viewerScale,
                   viewport, appCurrentPage, appTotalPages, selection, searchQuery,
                   searchResults, loadPDFs, selectedText, tsRest>>

\* setCurrentPage(n) with the effects of the commit: clearAllState of
\* part_002:49-51 and the render effect
setCurrentPage(n) ==
    /\ appCurrentPage' = n
    /\ IF n # appCurrentPage
       THEN /\ selectedText' = EmptyStr
            /\ selection' = NoSelection
            /\ renderPages' = RenderEffect(pdfDocument, n, viewerScale)
       ELSE UNCHANGED <<selectedText, selection, renderPages>>

\* a query is one word; fullText.toLowerCase().includes(query)
TextIncludes(text, q) ==
    \E k \in DOMAIN text : text[k].c = q[1].c /\ text[k].n >= q[1].n

\* the search effect, PDFViewer.tsx:193-219: the pages whose text has the query
SearchResults(q, texts) ==
    IF Trim(q) = EmptyStr \/ texts = 0 THEN <<>>
    ELSE SelectSeq([p \in 1 .. NumPages(texts) |-> p],
                   LAMBDA p : TextIncludes(PageText(texts, p), Trim(q)))

\* a file is chosen (handleFileUpload, handlePDFSelect, handleFolderSelect,
\* PDFViewer.tsx:107-157): loadPDF up to its await of getDocument,
\* PDFViewer.tsx:74-84, with handlePDFChange of part_002:62-68.  The
\* controls are not rendered while isLoading.
LoadPDF(d) ==
    /\ ~isLoading
    /\ Len(loadPDFs) < MaxTsLoads
    /\ isLoading' = TRUE
    /\ selectedText' = EmptyStr
    /\ selection' = NoSelection
    /\ appCurrentPage' = 1
    /\ appTotalPages' = 0
    /\ searchQuery' = EmptyStr
    /\ searchResults' = <<>>
    /\ drawn' = NoEntry
    /\ loadPDFs' = Append(loadPDFs, [doc |-> d, pc |-> "getDocument"])
    /\ UNCHANGED <<pdfDocument, pageTexts, isDragging, dragStart, viewerScale, viewport,
                   renderPages, tsRest>>

\* getDocument resolved, PDFViewer.tsx:87-90; isLoading is still true, so
\* the render effect of this commit finds no canvas
LoadPDFDocumentResolved(i) ==
    /\ i \in DOMAIN loadPDFs
    /\ loadPDFs[i].pc = "getDocument"
    /\ pdfDocument' = loadPDFs[i].doc
    /\ appTotalPages' = NumPages(loadPDFs[i].doc)
    /\ setCurrentPage(1)
    /\ loadPDFs' = [loadPDFs EXCEPT ![i].pc = "texts"]
    /\ UNCHANGED <<pageTexts, isLoading, isDragging, dragStart, viewerScale, viewport,
                   searchQuery, searchResults, drawn, tsRest>>

\* the page texts are read, PDFViewer.tsx:92-100 (the awaits of the loop
\* change no state and are taken together); the search effect follows the
\* change of pageTexts
LoadPDFTextsResolved(i) ==
    /\ i \in DOMAIN loadPDFs
    /\ loadPDFs[i].pc = "texts"
    /\ pageTexts' = loadPDFs[i].doc
    /\ isLoading' = FALSE
    /\ searchResults' = SearchResults(searchQuery, loadPDFs[i].doc)
    /\ loadPDFs' = [loadPDFs EXCEPT ![i].pc = "done"]
    /\ UNCHANGED <<pdfDocument, isDragging, dragStart, viewerScale, viewport, appCurrentPage,
                   appTotalPages, selection, searchQuery, drawn, renderPages,
                   selectedText, tsRest>>

\* getDocument, getPage or getTextContent rejected: the catch of
\* PDFViewer.tsx:101-104
LoadPDFRejected(i) ==
    /\ i \in DOMAIN loadPDFs
    /\ loadPDFs[i].pc \in {"getDocument", "texts"}
    /\ isLoading' = FALSE
    /\ loadPDFs' = [loadPDFs EXCEPT ![i].pc = "failed"]
    /\ UNCHANGED <<pdfDocument, pageTexts, isDragging, dragStart, viewerScale, viewport,
                   appCurrentPage, appTotalPages, selection, searchQuery, searchResults,
                   drawn, renderPages, selectedText, tsRest>>

\* goToPreviousPage, PDFViewer.tsx:309-313
goToPreviousPage ==
    /\ ~isLoading
    /\ Len(renderPages) < MaxTsRenders
    /\ IF appCurrentPage > 1 THEN setCurrentPage(appCurrentPage - 1)
       ELSE UNCHANGED <<appCurrentPage, selectedText, selection, renderPages>>
    /\ UNCHANGED <<pdfDocument, pageTexts, isLoading, isDragging, dragStart, viewerScale,
                   viewport, appTotalPages, searchQuery, searchResults, drawn, loadPDFs,
                   tsRest>>

\* goToNextPage, PDFViewer.tsx:315-319
goToNextPage ==
    /\ ~isLoading
    /\ Len(renderPages) < MaxTsRenders
    /\ IF appCurrentPage < appTotalPages THEN setCurrentPage(appCurrentPage + 1)
       ELSE UNCHANGED <<appCurrentPage, selectedText, selection, renderPages>>
    /\ UNCHANGED <<pdfDocument, pageTexts, isLoading, isDragging, dragStart, viewerScale,
                   viewport, appTotalPages, searchQuery, searchResults, drawn, loadPDFs,
                   tsRest>>

\* handlePageJump, PDFViewer.tsx:321-328, for the number typed
handlePageJump(pageNum) ==
    /\ ~isLoading
    /\ Len(renderPages) < MaxTsRenders
    /\ IF pageNum >= 1 /\ pageNum <= appTotalPages THEN setCurrentPage(pageNum)
       ELSE UNCHANGED <<appCurrentPage, selectedText, selection, renderPages>>
    /\ UNCHANGED <<pdfDocument, pageTexts, isLoading, isDragging, dragStart, viewerScale,
                   viewport, appTotalPages, searchQuery, searchResults, drawn, loadPDFs,
                   tsRest>>

\* a search result is clicked: onJumpToPage is setCurrentPage, part_002:126-131
onJumpToPage(k) ==
    /\ k \in DOMAIN searchResults
    /\ Len(renderPages) < MaxTsRenders
    /\ setCurrentPage(searchResults[k])
    /\ UNCHANGED <<pdfDocument, pageTexts, isLoading, isDragging, dragStart, viewerScale,
                   viewport, appTotalPages, searchQuery, searchResults, drawn, loadPDFs,
                   tsRest>>

SearchQueries == {EmptyStr, <<W("a", 1)>>}

\* the search input changes, part_002:126-129, and the search effect runs
setSearchQuery(q) ==
    /\ q # searchQuery
    /\ searchQuery' = q
    /\ searchResults' = SearchResults(q, pageTexts)
    /\ UNCHANGED <<pdfDocument, pageTexts, isLoading, isDragging, dragStart, viewerScale,
                   viewport, appCurrentPage, appTotalPages, selection, drawn, loadPDFs,
                   renderPages, selectedText, tsRest>>

\* the zoom buttons, PDFViewer.tsx:446 and 455, and the render effect
zoomIn ==
    /\ ~isLoading
    /\ Len(renderPages) < MaxTsRenders
    /\ viewerScale < DefaultScale + MaxZoomSteps
    /\ viewerScale' = Min(MaxScale, viewerScale + 1)
    /\ renderPages' = IF viewerScale' # viewerScale
                      THEN RenderEffect(pdfDocument, appCurrentPage, viewerScale')
                      ELSE renderPages
    /\ UNCHANGED <<pdfDocument, pageTexts, isLoading, isDragging, dragStart, viewport,
                   appCurrentPage, appTotalPages, selection, searchQuery, searchResults,
                   drawn, loadPDFs, selectedText, tsRest>>

zoomOut ==
    /\ ~isLoading
    /\ Len(renderPages) < MaxTsRenders
    /\ viewerScale > DefaultScale
    /\ viewerScale' = Max(MinScale, viewerScale - 1)
    /\ renderPages' = IF viewerScale' # viewerScale
                      THEN RenderEffect(pdfDocument, appCurrentPage, viewerScale')
                      ELSE renderPages
    /\ UNCHANGED <<pdfDocument, pageTexts, isLoading, isDragging, dragStart, viewport,
                   appCurrentPage, appTotalPages, selection, searchQuery, searchResults,
                   drawn, loadPDFs, selectedText, tsRest>>

\* ------------------------------------------------------------------ PDFViewer.tsx selection
TsPoints == {<<0, 60>>, <<40, 125>>, <<40, 150>>}
FallbackHeight == 12

\* handleMouseDown, PDFViewer.tsx:222-233; the canvas exists unless isLoading
handleMouseDown(p) ==
    /\ ~isLoading
    /\ isDragging' = TRUE
    /\ dragStart' = p
    /\ selection' = NoSelection
    /\ selectedText' = EmptyStr
    /\ UNCHANGED <<pdfDocument, pageTexts, isLoading, viewerScale, viewport, appCurrentPage,
                   appTotalPages, searchQuery, searchResults, drawn, loadPDFs,
                   renderPages, tsRest>>

\* handleMouseMove, PDFViewer.tsx:235-250
handleMouseMove(p) ==
    /\ ~isLoading
    /\ isDragging
    /\ selection' = [x |-> Min(dragStart[1], p[1]), y |-> Min(dragStart[2], p[2]),
                     width |-> Abs(p[1] - dragStart[1]),
                     height |-> Abs(p[2] - dragStart[2])]
    /\ UNCHANGED <<pdfDocument, pageTexts, isLoading, isDragging, dragStart, viewerScale,
                   viewport, appCurrentPage, appTotalPages, searchQuery, searchResults,
                   drawn, loadPDFs, renderPages, selectedText, tsRest>>

\* item.height || 12, PDFViewer.tsx:272 and 284
Height(item) == IF item.height = 0 THEN FallbackHeight ELSE item.height

\* the bounding box of a text item, PDFViewer.tsx:268-272
TsItemBox(item, vp) ==
    [x |-> item.tx, y |-> ViewportHeight(vp) - item.ty, width |-> item.width,
     height |-> Height(item)]

\* overlapArea, PDFViewer.tsx:275-277
overlapArea(sel, b) ==
    LET overlapX == Max(0, Min(sel.x + sel.width, b.x + b.width) - Max(sel.x, b.x))
        overlapY == Max(0, Min(sel.y + sel.height, b.y + b.height) - Max(sel.y, b.y))
    IN  overlapX * overlapY

\* overlapRatio >= 0.3, PDFViewer.tsx:278-281; 0/0 is NaN and compares false
TsCovered(sel, b) ==
    /\ b.width * b.height # 0
    /\ 10 * overlapArea(sel, b) >= 3 * b.width * b.height

\* the forEach of PDFViewer.tsx:264-288
RECURSIVE TsSelectedItems(_, _, _)
TsSelectedItems(items, sel, vp) ==
    IF items = <<>> THEN <<>>
    ELSE (IF TsCovered(sel, TsItemBox(Head(items), vp))
          THEN <<[str |-> Head(items).str, fontSize |-> Height(Head(items)),
                  y |-> ViewportHeight(vp) - Head(items).ty]>>
          ELSE <<>>)
         \o TsSelectedItems(Tail(items), sel, vp)

\* selectedItems.sort((a, b) => a.y - b.y), PDFViewer.tsx:291: stable
RECURSIVE InsertByY(_, _)
InsertByY(sorted, it) ==
    IF sorted = <<>> THEN <<it>>
    ELSE IF it.y < Head(sorted).y THEN <<it>> \o sorted
    ELSE <<Head(sorted)>> \o InsertByY(Tail(sorted), it)

RECURSIVE SortByY(_, _)
SortByY(items, acc) ==
    IF items = <<>> THEN acc ELSE SortByY(Tail(items), InsertByY(acc, Head(items)))

RECURSIVE SumFontSize(_)
SumFontSize(items) ==
    IF items = <<>> THEN 0 ELSE Head(items).fontSize + SumFontSize(Tail(items))

\* item.fontSize > avgFontSize * 1.5, PDFViewer.tsx:295-297, in integers
isLargeHeading(it, items) == 2 * Len(items) * it.fontSize > 3 * SumFontSize(items)

\* the heading filter, PDFViewer.tsx:295-303
filteredItems(items) ==
    LET headingCount == Len(SelectSeq(items, LAMBDA i : isLargeHeading(i, items)))
        totalItems == Len(items)
    IN  SelectSeq(items, LAMBDA it : \/ ~isLargeHeading(it, items)
                                     \/ 2 * headingCount > totalItems
                                     \/ totalItems <= 3)

\* the text handleMouseUp sets, PDFViewer.tsx:261-305
TsExtractText(items, sel, vp) ==
    LET kept == filteredItems(SortByY(TsSelectedItems(items, sel, vp), <<>>))
    IN  Trim(JoinStrs([k \in 1 .. Len(kept) |-> kept[k].str]))

\* handleMouseUp, PDFViewer.tsx:252-307
handleMouseUp ==
    /\ ~isLoading
    /\ isDragging' = FALSE
    /\ IF \/ ~isDragging
          \/ selection = NoSelection
          \/ pageTexts = 0
          \/ appCurrentPage \notin 1 .. NumPages(pageTexts)
          \/ viewport = NoViewport
       THEN UNCHANGED selectedText
       ELSE selectedText' = TsExtractText(PageItems(pageTexts, appCurrentPage),
                                          selection, viewport)
    /\ UNCHANGED <<pdfDocument, pageTexts, isLoading, dragStart, viewerScale, viewport,
                   appCurrentPage, appTotalPages, selection, searchQuery, searchResults,
                   drawn, loadPDFs, renderPages, tsRest>>

\* clearSelection, PDFViewer.tsx:330-333; its button shows with a selection
clearSelection ==
    /\ ~isLoading
    /\ selection # NoSelection
    /\ selection' = NoSelection
    /\ selectedText' = EmptyStr
    /\ UNCHANGED <<pdfDocument, pageTexts, isLoading, isDragging, dragStart, viewerScale,
                   viewport, appCurrentPage, appTotalPages, searchQuery, searchResults,
                   drawn, loadPDFs, renderPages, tsRest>>

\* ------------------------------------------------------------------ viewer
InitApp ==
    /\ pdfDoc = 0
    /\ currentPage = 1
    /\ totalPages = 1
    /\ zoom = DefaultZoom
    /\ selectionBox = NoBox
    /\ extractedText = EmptyStr
    /\ question = EmptyStr
    /\ promptPreview = <<>>
    /\ answer = NoAnswer
    /\ loading = FALSE
    /\ apiKey = ""
    /\ provider = "groq"
    /\ vectorDB = <<>>
    /\ embedder = FALSE
    /\ startPos = NoPos
    /\ textCache = [p \in 1 .. PagesPerDoc |-> NoEntry]
    /\ activeRenderTask = 0
    /\ canvas = NoEntry
    /\ renders = <<>>
    /\ loads = <<>>
    /\ ask = Idle

InitServer ==
    /\ openai \in BOOLEAN
    /\ anthropic \in BOOLEAN
    /\ responseCache = {}
    /\ now = 0
    /\ requests = <<>>
    /\ adapterCalls = <<>>

\* a first visit: nothing is stored, part_002 useState defaults and
\* part_001:82-87
InitPanel ==
    /\ apiMode = "fallback"
    /\ storage = ""
    /\ selectedText = EmptyStr
    /\ panel = [question |-> EmptyStr, answer |-> NullAnswer, isLoading |-> FALSE,
                error |-> ""]
    /\ submit = NoSubmit
    /\ timers = <<>>

Init == InitApp /\ InitServer /\ InitPanel /\ InitChunker /\ InitPdfViewer

\* the viewer next to a server that has no provider key configured
InitViewer == Init /\ ~openai /\ ~anthropic

Rendering ==
    \/ \E r \in 1 .. MaxRenders : RenderStart(r)
    \/ \E r \in 1 .. MaxRenders : RenderFinish(r)
    \/ \E r \in 1 .. MaxRenders : RenderCacheText(r)

Renderer == Rendering \/ \E r \in 1 .. MaxRenders : RenderRefused(r)

Loader ==
    \/ \E d \in Docs : LoadPdf(d)
    \/ \E i \in 1 .. MaxLoads : LoadDocumentResolved(i)
    \/ \E i \in 1 .. MaxLoads : LoadDocumentRejected(i)
    \/ \E i \in 1 .. MaxLoads : LoadPageText(i)
    \/ \E i \in 1 .. MaxLoads : LoadEmbedResolved(i)
    \/ LoadEmbedder

Navigation ==
    \/ Prev
    \/ NextPage
    \/ ZoomIn
    \/ ZoomOut
    \/ ResetZoom

Selecting ==
    \/ \E p \in Points : onMouseDown(p)
    \/ \E p \in Points : onMouseMove(p)
    \/ onMouseUp
    \/ clearAll

Asking ==
    \/ handleAsk
    \/ AskQuestionEmbedded
    \/ AskExcerptEmbedded
    \/ AskStandIn
    \/ \E c \in BOOLEAN : AskRemoteReply(c)
    \/ AskRejected
    \/ \E q \in Questions : SetQuestion(q)
    \/ \E k \in ApiKeys : SetApiKey(k)
    \/ \E p \in Providers : SetProvider(p)

\* the joined page texts of documents, part_001:466-475: the two documents,
\* document 1 followed by a page without text or by a page that holds only
\* its page number, a document whose only page has no text, and a document
\* of the four pages of documents 1 and 2 and a page number
DocText(d) == JoinStrs([p \in 1 .. PagesPerDoc |-> PageText(d, p)])
AskTexts ==
    {DocText(1), DocText(2), DocText(1) \o EmptyStr, EmptyStr,
     DocText(1) \o <<W("7", 1)>>, DocText(1) \o DocText(2) \o <<W("7", 1)>>}

\* the chunk lists loadPdf embeds: none (no document loaded), or the chunks
\* of a joined text
ChunkLists == {<<>>} \cup {chunkText(t, ChunkSize) : t \in AskTexts}

\* the index loadPdf builds from a chunk list, part_001:476-481
IndexOf(chunks) == [k \in DOMAIN chunks |-> [text |-> chunks[k], embedding |-> Embed(chunks[k])]]

\* what extractFromSelection leaves: nothing, one run, a page of document 1
\* or of document 2
Excerpts == {EmptyStr, <<W("a", 250)>>, Trim(PageText(1, 1)), Trim(PageText(2, 1))}

\* handleAsk started from any index, excerpt and pipeline state
InitAsk ==
    /\ InitServer /\ ~openai /\ ~anthropic
    /\ InitPanel
    /\ InitChunker
    /\ InitPdfViewer
    /\ pdfDoc = 0
    /\ currentPage = 1
    /\ totalPages = 1
    /\ zoom = DefaultZoom
    /\ selectionBox = NoBox
    /\ extractedText \in Excerpts
    /\ question = EmptyStr
    /\ promptPreview = <<>>
    /\ answer = NoAnswer
    /\ loading = FALSE
    /\ apiKey = ""
    /\ provider = "groq"
    /\ vectorDB \in {IndexOf(c) : c \in ChunkLists}
    /\ embedder \in BOOLEAN
    /\ startPos = NoPos
    /\ textCache = [p \in 1 .. PagesPerDoc |-> NoEntry]
    /\ activeRenderTask = 0
    /\ canvas = NoEntry
    /\ renders = <<>>
    /\ loads = <<>>
    /\ ask = Idle

SpecAsk == InitAsk /\ [][Asking]_vars

\* the awaited responder call settles, one way or the other
AskResponderSettles ==
    \/ AskStandIn
    \/ \E c \in BOOLEAN : AskRemoteReply(c)
    \/ AskRejected

\* no awaited call of handleAsk stays pending for ever: an embedding call or
\* a fetch rejects unless it resolves first, and the responder call settles
SpecAskFair ==
    /\ SpecAsk
    /\ WF_vars(AskRejected)
    /\ WF_vars(AskResponderSettles)

\* the viewer before the embedding pipeline has loaded
LoaderBasic ==
    \/ \E d \in Docs : LoadPdf(d)
    \/ \E i \in 1 .. MaxLoads : LoadDocumentResolved(i)
    \/ \E i \in 1 .. MaxLoads : LoadDocumentRejected(i)

\* loading, rendering, paging and zooming
Next == Renderer \/ LoaderBasic \/ Navigation

Spec == InitViewer /\ [][Next]_vars

\* loading, rendering, paging and selecting
NextSelect == Renderer \/ LoaderBasic \/ Prev \/ NextPage \/ Selecting

SpecSelect == InitViewer /\ [][NextSelect]_vars

\* loading with the index build, rendering and asking
AskingLocal ==
    \/ handleAsk
    \/ AskQuestionEmbedded
    \/ AskStandIn
    \/ \E q \in Questions : SetQuestion(q)

NextIndex == Renderer \/ Loader \/ AskingLocal

SpecIndex == InitViewer /\ [][NextIndex]_vars

\* a user who acts only when no load and no render is in flight
Quiet ==
    /\ \A r \in DOMAIN renders : RenderEnded(renders[r])
    /\ \A i \in DOMAIN loads : LoadEnded(loads[i])

NextPatient ==
    \/ Rendering
    \/ \E i \in 1 .. MaxLoads : LoadDocumentResolved(i)
    \/ \E i \in 1 .. MaxLoads : LoadDocumentRejected(i)
    \/ Quiet /\ \E d \in Docs : LoadPdf(d)
    \/ Quiet /\ Navigation
    \/ Quiet /\ Selecting

SpecPatient == InitViewer /\ [][NextPatient]_vars

\* ------------------------------------------------------------------ PDFViewer.tsx specifications
TsRendering ==
    \/ \E r \in 1 .. MaxTsRenders : RenderGotPage(r)
    \/ \E r \in 1 .. MaxTsRenders : RenderPainted(r)

TsLoading ==
    \/ \E i \in 1 .. MaxTsLoads : LoadPDFDocumentResolved(i)
    \/ \E i \in 1 .. MaxTsLoads : LoadPDFTextsResolved(i)
    \/ \E i \in 1 .. MaxTsLoads : LoadPDFRejected(i)

TsPaging ==
    \/ goToPreviousPage
    \/ goToNextPage
    \/ \E n \in 0 .. MaxPageInput : handlePageJump(n)
    \/ zoomIn
    \/ zoomOut

TsSearching ==
    \/ \E q \in SearchQueries : setSearchQuery(q)
    \/ \E k \in 1 .. PagesPerDoc : onJumpToPage(k)

TsSelecting ==
    \/ \E p \in TsPoints : handleMouseDown(p)
    \/ \E p \in TsPoints : handleMouseMove(p)
    \/ handleMouseUp
    \/ clearSelection

\* loading, rendering, paging and searching
NextPdfViewer ==
    \/ \E d \in TsDocs : LoadPDF(d)
    \/ TsLoading
    \/ TsRendering
    \/ TsPaging
    \/ TsSearching

SpecPdfViewer == InitViewer /\ [][NextPdfViewer]_vars

\* every awaited call of loadPDF and of renderPage settles
SpecPdfViewerFair ==
    /\ SpecPdfViewer
    /\ WF_vars(TsLoading)
    /\ WF_vars(TsRendering)

\* loading, rendering, paging and selecting
NextPdfSelect ==
    \/ \E d \in TsDocs : LoadPDF(d)
    \/ \E i \in 1 .. MaxTsLoads : LoadPDFDocumentResolved(i)
    \/ \E i \in 1 .. MaxTsLoads : LoadPDFTextsResolved(i)
    \/ TsRendering
    \/ goToNextPage
    \/ goToPreviousPage
    \/ TsSelecting

SpecPdfSelect == InitViewer /\ [][NextPdfSelect]_vars

\* ------------------------------------------------------------------ extractFromSelection specification
\* extractFromSelection of App.jsx as a function of the page shown and of the
\* drag: document 1, 2 or 3 has been loaded without the pipeline, its first
\* page is rendered and cached, and a drag between two points is under way
ExtractDocs == {1, 2, 3}
ExtractPoints == Points \cup {<<0, 30>>, <<40, 0>>}

InitExtract ==
    /\ InitServer /\ ~openai /\ ~anthropic
    /\ InitPanel
    /\ InitChunker
    /\ InitPdfViewer
    /\ pdfDoc \in ExtractDocs
    /\ currentPage = 1
    /\ totalPages = NumPages(pdfDoc)
    /\ zoom = DefaultZoom
    /\ startPos \in ExtractPoints
    /\ \E p \in ExtractPoints :
           selectionBox = [left |-> Min(startPos[1], p[1]), top |-> Min(startPos[2], p[2]),
                           width |-> Abs(p[1] - startPos[1]),
                           height |-> Abs(p[2] - startPos[2])]
    /\ extractedText = EmptyStr
    /\ question = EmptyStr
    /\ promptPreview = <<>>
    /\ answer = NoAnswer
    /\ loading = FALSE
    /\ apiKey = ""
    /\ provider = "groq"
    /\ vectorDB = <<>>
    /\ embedder = FALSE
    /\ textCache = [p \in 1 .. PagesPerDoc |->
                      IF p = 1 THEN [doc |-> pdfDoc, page |-> 1, scale |-> DefaultZoom]
                      ELSE NoEntry]
    /\ activeRenderTask = 0
    /\ canvas = [doc |-> pdfDoc, page |-> 1, scale |-> DefaultZoom]
    /\ renders = <<[doc |-> pdfDoc, page |-> 1, zoom |-> DefaultZoom, pc |-> "done"]>>
    /\ loads = <<[GoneLoad("done") EXCEPT !.doc = pdfDoc]>>
    /\ ask = Idle

SpecExtract == InitExtract /\ [][Selecting]_vars

\* ------------------------------------------------------------------ chunkText specification
InitChunk ==
    /\ InitApp
    /\ InitServer /\ ~openai /\ ~anthropic
    /\ InitPanel
    /\ InitPdfViewer
    /\ InitChunkerInputs

SpecChunk == InitChunk /\ [][ChunkTextReturns]_vars

\* ------------------------------------------------------------------ server
\* Server strings are kept as runs of one repeated character code (ASCII, one
\* byte each): "a|a" is <<R(97, 1), R(124, 1), R(97, 1)>>.  Bytes(s) is the
\* string itself.  A body field is [present, chars]; an absent one is undefined.
Missing == [present |-> FALSE, chars |-> <<>>]
Str(chars) == [present |-> TRUE, chars |-> chars]
R(code, k) == [c |-> code, n |-> k]
Fill(k) == <<R(120, k)>>
Bar == 124
LetterA == <<R(97, 1)>>
ABarA == <<R(97, 1), R(Bar, 1), R(97, 1)>>

RECURSIVE Bytes(_)
Bytes(runs) ==
    IF runs = <<>> THEN <<>>
    ELSE [k \in 1 .. Head(runs).n |-> Head(runs).c] \o Bytes(Tail(runs))

MaxContextLen == 10000
MaxQuestionLen == 1000
StdTTL == 86400

\* Buffer.from(s).toString('base64'): the sextets of each 3-byte group, 64
\* standing for the padding "="
Byte(bytes, k) == IF k <= Len(bytes) THEN bytes[k] ELSE 0
Base64(bytes) ==
    [j \in 1 .. 4 * ((Len(bytes) + 2) \div 3) |->
        LET g == (j - 1) \div 4
            b0 == Byte(bytes, 3 * g + 1)
            b1 == Byte(bytes, 3 * g + 2)
            b2 == Byte(bytes, 3 * g + 3)
        IN  CASE (j - 1) % 4 = 0 -> b0 \div 4
              [] (j - 1) % 4 = 1 -> (b0 % 4) * 16 + b1 \div 16
              [] (j - 1) % 4 = 2 -> IF 3 * g + 2 > Len(bytes) THEN 64
                                    ELSE (b1 % 16) * 4 + b2 \div 64
              [] OTHER -> IF 3 * g + 3 > Len(bytes) THEN 64 ELSE b2 % 64]

\* part_003:182
cacheKey(ctx, q) == Base64(Bytes(ctx.chars) \o <<Bar>> \o Bytes(q.chars))

\* !field
Falsy(f) == ~f.present \/ f.chars = <<>>

\* the status of the validation, part_003:163-179; 0 when the body is valid
Validate_Inclusive(ctx, q) ==
    IF Falsy(ctx) \/ Falsy(q) THEN 400
    ELSE IF SumLen(ctx.chars) >= MaxContextLen THEN 400
    ELSE IF SumLen(q.chars) >= MaxQuestionLen THEN 400
    ELSE 0
Validate(ctx, q) ==
    IF Falsy(ctx) \/ Falsy(q) THEN 400
    ELSE IF SumLen(ctx.chars) > MaxContextLen THEN 400
    ELSE IF SumLen(q.chars) > MaxQuestionLen THEN 400
    ELSE 0

\* getModelAdapter(preferredModel), part_003:143-155
getModelAdapter(preferredModel) ==
    IF preferredModel = "openai" /\ openai THEN "OpenAIAdapter"
    ELSE IF preferredModel = "anthropic" /\ anthropic THEN "AnthropicAdapter"
    ELSE IF openai THEN "OpenAIAdapter"
    ELSE IF anthropic THEN "AnthropicAdapter"
    ELSE "FallbackAdapter"

\* The cache maps keys to entries.  An entry is kept with the context and the
\* question whose cacheKey it is stored under; KeyOf(e) is that key.
KeyOf(e) == cacheKey(e.context, e.question)

\* responseCache.get(key): an entry is served until its time is in the past
Live_Strict(e) == e.expires > now
Live(e) == ~(e.expires < now)
CacheGet(ctx, q) == {e \in responseCache : Live(e) /\ KeyOf(e) = cacheKey(ctx, q)}

\* responseCache.set(key, value) under stdTTL
CacheSet(cache, ctx, q, value) ==
    {e \in cache : KeyOf(e) # cacheKey(ctx, q)}
    \cup {[context |-> ctx, question |-> q, value |-> value, expires |-> now + StdTTL]}

NoBody == [answer |-> <<>>, source |-> "", error |-> ""]

\* what generateResponse threw, if it did: an error and its message
NoError == [thrown |-> FALSE, message |-> <<>>]
Thrown(msg) == [thrown |-> TRUE, message |-> msg]
ErrorBody(msg) == [answer |-> <<>>, source |-> "", error |-> msg]

\* the request bodies the clients send
ShortStrings == {LetterA, ABarA}
Bodies ==
    [context : {Str(c) : c \in ShortStrings}, question : {Str(q) : q \in ShortStrings},
     model : {"undefined"}]
    \cup [context : {Str(LetterA)}, question : {Str(LetterA)}, model : {"openai", "anthropic"}]
    \cup [context : {Missing, Str(<<>>), Str(Fill(MaxContextLen + 1))},
          question : {Str(LetterA)}, model : {"undefined"}]
    \cup [context : {Str(LetterA)},
          question : {Missing, Str(<<>>), Str(Fill(MaxQuestionLen + 1))},
          model : {"undefined"}]
    \cup [context : {Str(Fill(MaxContextLen))}, question : {Str(Fill(MaxQuestionLen))},
          model : {"undefined"}]

\* app.post('/api/ask') up to its first await or its response, part_003:158-193
Receive(body) ==
    /\ Len(requests) < MaxRequests
    /\ LET req == [context |-> body.context, question |-> body.question,
                   model |-> body.model, pc |-> "done", adapter |-> "",
                   status |-> 0, body |-> NoBody, doneAt |-> 0, error |-> NoError]
       IN  IF Validate(body.context, body.question) # 0
           THEN /\ requests' = Append(requests,
                       [req EXCEPT !.status = Validate(body.context, body.question),
                                   !.body = ErrorBody("invalid")])
                /\ UNCHANGED <<responseCache, adapterCalls>>
           ELSE IF CacheGet(body.context, body.question) # {}
           THEN /\ requests' = Append(requests,
                       [req EXCEPT !.status = 200,
                                   !.body = (CHOOSE e \in CacheGet(body.context,
                                                                   body.question) : TRUE).value])
                /\ UNCHANGED <<responseCache, adapterCalls>>
           ELSE /\ requests' = Append(requests,
                       [req EXCEPT !.pc = "generating",
                                   !.adapter = getModelAdapter(body.model)])
                /\ responseCache' = {e \in responseCache :
                        KeyOf(e) # cacheKey(body.context, body.question)}
                /\ adapterCalls' = Append(adapterCalls, Len(requests) + 1)
    /\ UNCHANGED <<openai, anthropic, now, appVars, panelVars,
                   chunkVars, pdfViewerVars>>

\* what an adapter answers: the stand-in is a function of its arguments, a
\* provider's completion is whatever the provider returns
Answers(r) ==
    IF r.adapter = "FallbackAdapter"
    THEN {[answer |-> <<r.context.chars, r.question.chars>>,
           source |-> "Demo Mode", error |-> ""]}
    ELSE {[answer |-> <<a>>, error |-> "",
           source |-> IF r.adapter = "OpenAIAdapter" THEN "GPT-4 Turbo"
                      ELSE "Claude 3 Sonnet"] : a \in {1, 2}}

\* generateResponse resolved: the response is cached and sent, part_003:193-199
AdapterResolved(i, response) ==
    /\ i \in DOMAIN requests
    /\ requests[i].pc = "generating"
    /\ response \in Answers(requests[i])
    /\ responseCache' = CacheSet(responseCache, requests[i].context,
                                 requests[i].question, response)
    /\ requests' = [requests EXCEPT ![i].pc = "done", ![i].status = 200,
                                    ![i].body = response, ![i].doneAt = now]
    /\ UNCHANGED <<openai, anthropic, now, adapterCalls, appVars, panelVars,
                   chunkVars, pdfViewerVars>>

\* The message of a thrown error is a sequence of words; one without a
\* message (error.message undefined) has none.  includes() is case-sensitive.
ErrorMessages == {<<"Incorrect", "API", "key", "provided">>,
                  <<"You", "exceeded", "your", "current", "quota">>,
                  <<"the", "rate", "limit", "was", "reached">>,
                  <<"quota", "of", "this", "API", "key", "is", "used", "up">>,
                  <<"socket", "hang", "up">>,
                  <<>>}

\* message?.includes(pattern)
Includes(msg, pattern) ==
    \E k \in 0 .. Len(msg) - Len(pattern) : SubSeq(msg, k + 1, k + Len(pattern)) = pattern

\* the tests of the catch block, part_003:205 and 211
MentionsApiKey(msg) == Includes(msg, <<"API", "key">>)
MentionsQuota_QuotaOnly(msg) == Includes(msg, <<"quota">>)
MentionsQuota(msg) == Includes(msg, <<"quota">>) \/ Includes(msg, <<"rate", "limit">>)

\* generateResponse rejected: the catch block classifies, part_003:201-220
AdapterRejected(i, msg) ==
    /\ i \in DOMAIN requests
    /\ requests[i].pc = "generating"
    /\ requests[i].adapter # "FallbackAdapter"
    /\ requests' = [requests EXCEPT
            ![i].pc = "done",
            ![i].error = Thrown(msg),
            ![i].status = IF MentionsApiKey(msg) THEN 401
                          ELSE IF MentionsQuota(msg) THEN 429 ELSE 500,
            ![i].body = ErrorBody(IF MentionsApiKey(msg) THEN "Invalid API key configuration"
                                  ELSE IF MentionsQuota(msg) THEN "API rate limit exceeded"
                                  ELSE "Internal server error")]
    /\ UNCHANGED <<openai, anthropic, responseCache, now, adapterCalls, appVars, panelVars,
                   chunkVars, pdfViewerVars>>

\* time passes
Tick(d) ==
    /\ now + d <= MaxClock
    /\ d = 1 => now % StdTTL < MaxDrift
    /\ now' = now + d
    /\ UNCHANGED <<openai, anthropic, responseCache, requests, adapterCalls, appVars, panelVars,
                   chunkVars, pdfViewerVars>>

\* NodeCache's periodic check deletes the expired entries
CheckExpired ==
    /\ \E e \in responseCache : ~Live(e)
    /\ responseCache' = {e \in responseCache : Live(e)}
    /\ UNCHANGED <<openai, anthropic, now, requests, adapterCalls, appVars, panelVars,
                   chunkVars, pdfViewerVars>>

NextServer ==
    \/ \E body \in Bodies : Receive(body)
    \/ \E i \in DOMAIN requests : \E r \in Answers(requests[i]) : AdapterResolved(i, r)
    \/ \E i \in DOMAIN requests : \E msg \in ErrorMessages : AdapterRejected(i, msg)
    \/ \E d \in {1, StdTTL} : Tick(d)
    \/ CheckExpired

SpecServer == Init /\ [][NextServer]_vars

\* ------------------------------------------------------------------ responders
\* requests that name a provider, or none
ModelBodies ==
    [context : {Str(LetterA)}, question : {Str(LetterA)},
     model : {"undefined", "openai", "anthropic"}]

\* the viewer without a document, asking, next to the server: who answers
NextResponders ==
    \/ handleAsk
    \/ AskStandIn
    \/ \E c \in BOOLEAN : AskRemoteReply(c)
    \/ \E q \in Questions : SetQuestion(q)
    \/ \E k \in ApiKeys : SetApiKey(k)
    \/ \E p \in Providers : SetProvider(p)
    \/ \E body \in ModelBodies : Receive(body)
    \/ \E i \in DOMAIN requests : \E r \in Answers(requests[i]) : AdapterResolved(i, r)
    \/ \E i \in DOMAIN requests : AdapterRejected(i, <<"socket", "hang", "up">>)

SpecResponders == Init /\ [][NextResponders]_vars

\* ------------------------------------------------------------------ question panel specifications
PanelNext ==
    \/ \E q \in PanelTexts : PanelSetQuestion(q)
    \/ \E t \in PanelTexts : setSelectedText(t)
    \/ \E m \in Modes : onApiModeChange(m)
    \/ handleSubmit
    \/ SubmitStandIn
    \/ \E ok \in BOOLEAN : SubmitFetchResolved(ok)
    \/ SubmitFetchRejected
    \/ SubmitJsonResolved
    \/ SubmitJsonRejected
    \/ \E t \in 1 .. MaxTimers : DowngradeTimer(t)
    \/ panelClearAll

\* the panel after the mount effect of App.tsx has read the stored mode,
\* part_002:35-40
InitStored ==
    /\ InitApp
    /\ InitServer /\ ~openai /\ ~anthropic
    /\ InitChunker
    /\ InitPdfViewer
    /\ storage \in Modes \cup {""}
    /\ apiMode = IF storage = "" THEN "fallback" ELSE storage
    /\ selectedText = EmptyStr
    /\ panel = [question |-> EmptyStr, answer |-> NullAnswer, isLoading |-> FALSE,
                error |-> ""]
    /\ submit = NoSubmit
    /\ timers = <<>>

SpecPanel == InitStored /\ [][PanelNext]_vars

\* every timeout that was set fires
SpecPanelFair == SpecPanel /\ \A t \in 1 .. MaxTimers : WF_vars(DowngradeTimer(t))

\* ------------------------------------------------------------------ properties of the viewer
Drawing == {r \in DOMAIN renders : renders[r].pc = "rendering"}
LatestRender == renders[Len(renders)]
LatestLoad == loads[Len(loads)]

\* C1: a new render request leaves no earlier request that has yet to draw or
\* is drawing, and at most one render request is drawing on the canvas at any
\* time.
C1_NewRenderCancelsRenderInProgress ==
    /\ [][Len(renders') = Len(renders) + 1 =>
            \A r \in DOMAIN renders : renders'[r].pc \notin {"getPage", "rendering"}]_vars
    /\ [](Cardinality(Drawing) <= 1)

\* a step of a render request that is no longer the latest one
SupersededStep ==
    \E r \in DOMAIN renders :
        /\ r < Len(renders)
        /\ Len(renders') = Len(renders)
        /\ renders[r].pc \in {"getPage", "rendering", "getText"}
        /\ renders'[r].pc \in {"rendering", "getText", "done", "failed"}
        /\ renders'[r].pc # renders[r].pc

\* C2: a render request that was superseded by a later one changes neither the
\* canvas, nor the text cache, nor the active-render handle; once every load
\* and every render has ended the canvas shows the page requested last.
C2_SupersededRenderHasNoEffect ==
    /\ [][SupersededStep =>
            /\ canvas' = canvas
            /\ textCache' = textCache
            /\ activeRenderTask' = activeRenderTask]_vars
    /\ [](Quiet /\ renders # <<>> =>
            /\ canvas # NoEntry
            /\ canvas.doc = LatestRender.doc
            /\ canvas.page = LatestRender.page)

\* C3: once every load has ended, and the document loaded last was indexed,
\* the index in use is the index of that document.
C3_IndexIsOfLatestLoad ==
    (/\ loads # <<>>
     /\ \A i \in DOMAIN loads : LoadEnded(loads[i])
     /\ LatestLoad.pc = "done"
     /\ LatestLoad.embedder)
    => vectorDB = DocIndex(LatestLoad.doc)

\* C4: when no load is in progress, every page the text cache holds is a page
\* of the document that is loaded.
C4_CacheHoldsOnlyLoadedDocument ==
    (pdfDoc # 0 /\ \A i \in DOMAIN loads : LoadEnded(loads[i]))
    => \A p \in DOMAIN textCache : textCache[p] = NoEntry \/ textCache[p].doc = pdfDoc

\* the document that is loaded is the one loaded last, every earlier load
\* has ended, and its index is still being built
IndexBuilding ==
    /\ loads # <<>>
    /\ LatestLoad.doc = pdfDoc
    /\ LatestLoad.pc \in {"getText", "embedding"}
    /\ \A i \in 1 .. Len(loads) - 1 : LoadEnded(loads[i])

\* C5: a question asked while the index of the loaded document is still being
\* built is ranked against an index that holds only chunks of that document.
C5_AskDuringBuildSeesOnlyLoadedDocument ==
    [][(ask.pc = "idle" /\ ask'.pc # "idle" /\ IndexBuilding)
        => \A k \in DOMAIN ask'.vectorDB :
                \E n \in DOMAIN DocIndex(pdfDoc) : ask'.vectorDB[k] = DocIndex(pdfDoc)[n]]_vars

\* C6: a pointer-up on a page whose text runs are not cached leaves the
\* excerpt empty.
C6_UncachedPageYieldsEmptyExcerpt ==
    [][(startPos # NoPos /\ startPos' = NoPos /\ textCache[currentPage] = NoEntry)
        => extractedText' = EmptyStr]_vars

\* the embedding calls that are awaited: one per index build under way, and
\* one of a question being ranked
EmbeddingCalls ==
    Cardinality({i \in DOMAIN loads : loads[i].pc = "embedding"})
    + (IF ask.pc \in {"embedQ", "embedSel"} THEN 1 ELSE 0)

\* C7: at most one call of the embedding collaborator is in flight.
C7_AtMostOneEmbeddingCall == EmbeddingCalls <= 1

\* ------------------------------------------------------------------ properties of the server
SamePair(r, b) == r.context = b.context /\ r.question = b.question
Generated(r) == r.pc = "done" /\ r.status = 200 /\ r.adapter # ""
ServedFromCache(r) == r.pc = "done" /\ r.status = 200 /\ r.adapter = ""
Arrival == Len(requests') = Len(requests) + 1
Arrived == requests'[Len(requests')]

\* C8: a request arrives whose (context, question) pair was answered by an
\* adapter before, the time is within stdTTL of that answer, and no other
\* adapter call was made under the same cache key: the request is answered 200
\* with the same response and no adapter is invoked.
C8_SecondCallServedFromCache ==
    [][\A i \in DOMAIN requests :
        (/\ Arrival
         /\ SamePair(requests[i], Arrived)
         /\ Generated(requests[i])
         /\ now <= requests[i].doneAt + StdTTL
         /\ \A k \in DOMAIN requests \ {i} :
                requests[k].adapter # "" => KeyOf(requests[k]) # KeyOf(requests[i]))
        => (/\ ServedFromCache(Arrived)
            /\ Arrived.body = requests[i].body
            /\ adapterCalls' = adapterCalls)]_vars

\* a second call at the last second of the window is served from the cache
C8_Witness ==
    \E i, j \in DOMAIN requests :
        /\ i < j
        /\ Generated(requests[i])
        /\ SamePair(requests[i], requests[j])
        /\ ServedFromCache(requests[j])
        /\ requests[j].body = requests[i].body
        /\ now = requests[i].doneAt + StdTTL
        /\ adapterCalls = <<i>>

\* C9: the cache is keyed by the exact (context, question) pair: a response
\* served from the cache was generated for a request of the same context and
\* the same question.
C9_CacheKeyedByExactPair ==
    \A j \in DOMAIN requests :
        ServedFromCache(requests[j]) =>
            \E i \in 1 .. j - 1 :
                /\ Generated(requests[i])
                /\ SamePair(requests[i], requests[j])
                /\ requests[i].body = requests[j].body

\* C10: a request whose context or question is missing, empty, or longer than
\* 10000 / 1000 characters is rejected with 400, the cache is left as it was
\* and no adapter is invoked; every other request, one of exactly 10000 / 1000
\* characters included, is never answered 400.
Malformed(r) ==
    \/ ~r.context.present \/ ~r.question.present
    \/ SumLen(r.context.chars) = 0 \/ SumLen(r.question.chars) = 0
    \/ SumLen(r.context.chars) > 10000 \/ SumLen(r.question.chars) > 1000

C10_InvalidRequestsRejected ==
    /\ [](\A i \in DOMAIN requests : requests[i].status = 400 <=> Malformed(requests[i]))
    /\ [][Arrival /\ Malformed(Arrived) =>
            /\ Arrived.pc = "done"
            /\ Arrived.status = 400
            /\ responseCache' = responseCache
            /\ adapterCalls' = adapterCalls]_vars

\* the longest accepted body was answered and a body one longer was rejected
C10_Witness ==
    \E i, j \in DOMAIN requests :
        /\ SumLen(requests[i].context.chars) = 10000
        /\ SumLen(requests[i].question.chars) = 1000
        /\ Generated(requests[i])
        /\ SumLen(requests[j].context.chars) = 10001
        /\ requests[j].status = 400
        /\ adapterCalls = <<i>>

\* C11: a request whose adapter failed is answered 401 when the error's
\* message names the API key, 429 when it names the quota or the rate limit,
\* and 500 otherwise; a request that was answered keeps its one status and
\* body, and the step that answers a failure leaves the cache as it was.
Failed(r) == r.pc = "done" /\ r.error.thrown

RemoteFailure ==
    /\ submit.pc \in {"fetch", "json"}
    /\ submit'.pc = "idle"
    /\ panel'.answer = NullAnswer

Downgraded == apiMode = "fallback" /\ storage = "fallback" /\ panel.error = ""

\* C13: a failure of the remote call under a remote mode shows its error and
\* sets the downgrade timeout; every timeout set leads to apiMode 'fallback',
\* stored as well, with the error cleared; and a submission made under
\* 'fallback' goes to the local stand-in.
C13_RemoteFailureDowngradesMode ==
    /\ [][RemoteFailure =>
            /\ submit.apiMode # "fallback"
            /\ panel'.error = "Switching to demo mode..."
            /\ timers' = Append(timers, "pending")]_vars
    /\ \A t \in 1 .. MaxTimers :
            (t \in DOMAIN timers /\ timers[t] = "pending")
                ~> (t \in DOMAIN timers /\ timers[t] = "fired" /\ Downgraded)
    /\ [][(submit.pc = "idle" /\ submit'.pc # "idle" /\ apiMode = "fallback")
            => submit'.pc = "standin"]_vars

C13_Witness ==
    /\ \E t \in DOMAIN timers : timers[t] = "fired"
    /\ Downgraded
    /\ submit.pc = "standin"

\* ------------------------------------------------------------------ properties of handleAsk
\* a step that accepts a submission: the loading flag is raised
Accepted == ~loading /\ loading'

\* C12: a submission with an empty selection or an empty question is not
\* accepted: the loading flag is raised, and a responder reached, only with a
\* non-empty selection and a non-empty question.
C12_EmptySubmissionRejected ==
    [][Accepted => (Trim(extractedText) # EmptyStr /\ question # EmptyStr)]_vars

\* C14: after every submitted question the loading flag returns to false,
\* whether the awaited embedding and answer calls resolve or reject.
C14_LoadingReturnsToFalse == loading ~> ~loading

\* the invocation has ranked the index and is waiting for its responder
Ranked == ask.pc \in {"delay", "fetch"}

\* C15: with a non-empty primary excerpt, no supplementary result has the
\* text of the primary excerpt.
C15_SupplementsExcludePrimary ==
    (Ranked /\ ask.primaryExcerpt # EmptyStr)
        => \A k \in DOMAIN ask.supp : ask.supp[k] # ask.primaryExcerpt

\* the excerpt is the highest-scoring entry of the index, and other entries
\* were returned
C15_Witness ==
    /\ Ranked
    /\ ask.primaryExcerpt # EmptyStr
    /\ embedder
    /\ vectorDB # <<>>
    /\ combinedArray(vectorDB, Embed(ask.question), TRUE,
                     Embed(ask.primaryExcerpt))[1].text = ask.primaryExcerpt
    /\ ask.supp # <<>>

NotEnoughInformation == [kind |-> "not enough information", of |-> <<>>, upto |-> 0]

\* C16: a question asked with no selection, an empty index and no key gets no
\* supplementary text, a prompt of the question section and the instruction
\* only, and from the stand-in exactly the insufficient-information sentence.
C16_BareQuestionGetsFixedAnswer ==
    /\ [][(Accepted /\ Trim(extractedText) = EmptyStr /\ vectorDB = <<>> /\ apiKey = "")
            => /\ ask'.supp = <<>>
               /\ promptPreview' = <<[section |-> "question", text |-> <<question>>],
                                     [section |-> "instruction", text |-> <<>>]>>
               /\ ask'.to = "stand-in"]_vars
    /\ [][(ask.pc = "delay" /\ ask'.pc = "idle"
           /\ ask.primaryExcerpt = EmptyStr /\ vectorDB = <<>>)
            => answer' = NotEnoughInformation]_vars

C16_Witness ==
    /\ ~loading
    /\ question # EmptyStr
    /\ extractedText = EmptyStr
    /\ vectorDB = <<>>
    /\ apiKey = ""
    /\ promptPreview = <<[section |-> "question", text |-> <<question>>],
                         [section |-> "instruction", text |-> <<>>]>>
    /\ answer = NotEnoughInformation

\* a step of handleAsk that builds the prompt and turns to the responder
Dispatched == ask.pc \notin {"delay", "fetch"} /\ ask'.pc \in {"delay", "fetch"}

\* C17: the prompt lists the primary excerpt, the supplementary context, the
\* question and the instruction in this order; the primary section is there
\* iff the excerpt is non-empty, the supplementary section iff the ranker
\* returned at least one entry, the question and the instruction always.
C17_PromptSections ==
    [][Dispatched =>
          promptPreview' =
              (IF ask'.primaryExcerpt # EmptyStr
               THEN <<[section |-> "primary", text |-> <<ask'.primaryExcerpt>>]>> ELSE <<>>)
              \o (IF ask'.supp # <<>>
                  THEN <<[section |-> "supplementary", text |-> ask'.supp]>> ELSE <<>>)
              \o <<[section |-> "question", text |-> <<ask'.question>>],
                   [section |-> "instruction", text |-> <<>>]>>]_vars

\* ------------------------------------------------------------------ properties of the responders
StandInKinds ==
    {"excerpt", "excerpt plus related context", "relevant parts", "not enough information"}

\* how often request i called generateResponse
CallsOf(i) == Cardinality({k \in DOMAIN adapterCalls : adapterCalls[k] = i})

\* C18: a question is answered by exactly one responder: without a key by the
\* stand-in and no remote call, with a key by one call to the selected
\* provider; on the server the stand-in adapter is selected iff neither
\* provider is configured, a requested provider that is configured is the one
\* selected, and a request calls its adapter once.
C18_ExactlyOneResponder ==
    /\ [](Ranked =>
            /\ ask.apiKey = "" => (ask.pc = "delay" /\ ask.to = "stand-in")
            /\ ask.apiKey # "" =>
                    (ask.pc = "fetch" /\ ask.to = ask.provider /\ ask.to \in Providers))
    /\ [][(Ranked /\ ask'.pc = "idle") =>
            IF ask.to = "stand-in" THEN answer'.kind \in StandInKinds
            ELSE answer'.kind \in {ask.to, "No response from model."}]_vars
    /\ [](\A i \in DOMAIN requests :
            /\ CallsOf(i) = IF requests[i].adapter = "" THEN 0 ELSE 1
            /\ requests[i].adapter # "" =>
                /\ requests[i].adapter = "FallbackAdapter" <=> (~openai /\ ~anthropic)
                /\ (requests[i].model = "openai" /\ openai)
                        => requests[i].adapter = "OpenAIAdapter"
                /\ (requests[i].model = "anthropic" /\ anthropic)
                        => requests[i].adapter = "AnthropicAdapter")

C18_Witness ==
    /\ ask.pc = "fetch"
    /\ ask.to = "gemini"
    /\ openai
    /\ \E i, j \in DOMAIN requests :
            /\ requests[i].model = "anthropic"
            /\ requests[i].adapter = "AnthropicAdapter"
            /\ requests[j].adapter = "" /\ requests[j].status = 200

\* ------------------------------------------------------------------ properties of the selection
\* C19: every change of the page and every document load clears the selection
\* rectangle and the excerpt.
C19_PageChangeClearsSelection ==
    [][(currentPage' # currentPage \/ pdfDoc' # pdfDoc)
        => (selectionBox' = NoBox /\ extractedText' = EmptyStr)]_vars

\* the runs of a page that the selection covers, in the order of the run list
CoveredRuns(items, sel, scale) ==
    SelectSeq(items, LAMBDA item : Covered(sel, ItemBox(item, scale)))

\* a list in ascending top position with one more run, put after the runs of
\* the same position
RECURSIVE InsertByTop(_, _, _)
InsertByTop(sorted, item, scale) ==
    IF sorted = <<>> THEN <<item>>
    ELSE IF ItemBox(item, scale).y < ItemBox(Head(sorted), scale).y THEN <<item>> \o sorted
    ELSE <<Head(sorted)>> \o InsertByTop(Tail(sorted), item, scale)

\* the runs top-down, runs of equal position in the order they came
RECURSIVE TopDown(_, _)
TopDown(items, scale) ==
    IF items = <<>> THEN <<>>
    ELSE InsertByTop(TopDown(SubSeq(items, 1, Len(items) - 1), scale),
                     items[Len(items)], scale)

\* C20: the excerpt of a selection lists the covered runs top-down, runs of
\* equal position in the order of the run list, joined by single spaces and
\* trimmed, whatever the order of the run list.
C20_ExcerptIsTopDown ==
    [][(/\ startPos # NoPos
        /\ startPos' = NoPos
        /\ selectionBox # NoBox
        /\ textCache[currentPage] # NoEntry)
        => LET entry == textCache[currentPage]
               runs == TopDown(CoveredRuns(PageItems(entry.doc, entry.page), selectionBox,
                                           entry.scale), entry.scale)
           IN  extractedText' = Trim(JoinStrs([k \in DOMAIN runs |-> runs[k].str]))]_vars

\* ------------------------------------------------------------------ properties of overlapping requests
\* C30: a request that arrives while a request with the same (context,
\* question) pair is still being answered invokes no adapter, and requests
\* with the same pair that overlapped receive the same response.
C30_OverlappingRequestsShareOneCall ==
    /\ [][\A i \in DOMAIN requests :
            (Arrival /\ requests[i].pc = "generating" /\ SamePair(requests[i], Arrived))
                => adapterCalls' = adapterCalls]_vars
    /\ [](\A i, j \in DOMAIN requests :
            (/\ i < j
             /\ SamePair(requests[i], requests[j])
             /\ Generated(requests[i]) /\ Generated(requests[j]))
                => requests[i].body = requests[j].body)

\* ------------------------------------------------------------------ properties of the ranker
\* the step of handleAsk that ranks the index and picks the supplements
RankingStep == ask.pc \in {"embedQ", "embedSel"} /\ ask'.pc \in {"delay", "fetch"}

\* the final score of an index entry for an invocation: its question
\* similarity, or with an excerpt the larger of that and 1.1 times its
\* excerpt similarity
FinalScore(a, e) ==
    LET q == cosineSimilarity(Embed(a.question), e.embedding)
    IN  IF a.primaryExcerpt = EmptyStr THEN q
        ELSE ScoreMax(q, Boost(cosineSimilarity(Embed(a.primaryExcerpt), e.embedding)))

\* the index entries whose text is not the primary excerpt
Candidates(a) ==
    {e \in {a.vectorDB[k] : k \in DOMAIN a.vectorDB} :
        a.primaryExcerpt = EmptyStr \/ e.text # a.primaryExcerpt}

SmallerOf(m, n) == IF m < n THEN m ELSE n

\* C24: the ranker returns at most 3 chunk texts, all of them texts of chunks
\* other than the primary excerpt, in descending final score, as many as
\* there are such texts up to 3, and no chunk left out has a strictly higher
\* final score than a returned one.
C24_SupplementsAreTopRanked ==
    [][RankingStep =>
        LET S == ask'.supp
            C == Candidates(ask)
        IN  /\ Len(S) <= 3
            /\ Len(S) = SmallerOf(3, Cardinality({e.text : e \in C}))
            /\ \A k \in DOMAIN S : \E e \in C : e.text = S[k]
            /\ \A i, j \in DOMAIN S : \A e, f \in C :
                   (i < j /\ e.text = S[i] /\ f.text = S[j])
                       => ~ScoreLess(FinalScore(ask, e), FinalScore(ask, f))
            /\ \A e, f \in C :
                   ((\A k \in DOMAIN S : S[k] # e.text) /\ (\E k \in DOMAIN S : S[k] = f.text))
                       => ~ScoreLess(FinalScore(ask, f), FinalScore(ask, e))]_vars

\* three supplements were picked out of more than three candidates for an
\* excerpt whose boosted similarity put a later chunk first
C24_Witness ==
    /\ Ranked
    /\ embedder
    /\ Len(vectorDB) > 3
    /\ ask.primaryExcerpt # EmptyStr
    /\ Len(ask.supp) = 3
    /\ ask.supp[1] # vectorDB[1].text
    /\ ask.supp[1] # vectorDB[2].text

\* the place of a text's first chunk in the index
FirstIndex(db, t) == CHOOSE k \in DOMAIN db : db[k].text = t /\ \A j \in 1 .. k - 1 : db[j].text # t

\* the sorted list the ranking step computes
SortedList(a) ==
    combinedArray(a.vectorDB, Embed(a.question), a.primaryExcerpt # EmptyStr,
                  Embed(a.primaryExcerpt))

\* C25: two chunks with the same final score stand in the ranker's sorted
\* list in the order they have in the index.
C25_TiesKeepDocumentOrder ==
    [][RankingStep =>
        LET arr == SortedList(ask)
        IN  \A i, j \in DOMAIN arr :
                (/\ i < j
                 /\ ~ScoreLess(arr[i].score, arr[j].score)
                 /\ ~ScoreLess(arr[j].score, arr[i].score))
                    => FirstIndex(ask.vectorDB, arr[i].text) < FirstIndex(ask.vectorDB, arr[j].text)]_vars

\* ------------------------------------------------------------------ properties of chunkText
Returned == chunker.pc = "returned"

\* chunks[k] is the words i..j of the text, joined
IsWordRun(chunk, words, i, j) ==
    chunk = JoinChars([k \in 1 .. j - i + 1 |-> WordChars(words[i + k - 1])])

\* C22: the chunks, in order and joined by the separator, are the text, and
\* every chunk is a run of whole consecutive words of the text.
C22_ChunksReconstructText ==
    Returned =>
        /\ JoinChars(chunker.chunks) = chunker.text
        /\ \A c \in DOMAIN chunker.chunks :
               \E i, j \in 1 .. Len(split(chunker.text)) :
                   i <= j /\ IsWordRun(chunker.chunks[c], split(chunker.text), i, j)

\* a text of several words, with an empty word between two spaces, was cut
\* into more than one chunk
C22_Witness ==
    /\ Returned
    /\ Len(chunker.chunks) >= 2
    /\ Len(split(chunker.text)) >= 4
    /\ \E k \in DOMAIN split(chunker.text) : split(chunker.text)[k] = EmptyWord

\* the chunk without its last word
WithoutLastWord(chunk) ==
    LET ws == split(chunk)
    IN  JoinChars([k \in 1 .. Len(ws) - 1 |-> WordChars(ws[k])])

\* every chunk but the last has reached the target, and had not reached it
\* before its last word
ClosedWhenReached ==
    \A c \in 1 .. Len(chunker.chunks) - 1 :
        /\ Len(chunker.chunks[c]) >= chunker.size
        /\ Len(WithoutLastWord(chunker.chunks[c])) < chunker.size

TsExtractStep ==
    /\ ~isLoading /\ isDragging /\ ~isDragging'
    /\ selection # NoSelection
    /\ pageTexts # 0
    /\ appCurrentPage \in 1 .. NumPages(pageTexts)
    /\ viewport # NoViewport

\* the text of a run is one of the words of an excerpt
Appears(item, text) == \E k \in DOMAIN text : text[k] = item.str[1]

\* the box of a run with the width and the height the run reports
OwnBox(item, vp) ==
    [x |-> item.tx, y |-> ViewportHeight(vp) - item.ty, width |-> item.width,
     height |-> item.height]

Degenerate(item) == item.width = 0 \/ item.height = 0

\* the overlap with the selection is at least 0.30 of the run's own area
CoverageReached(item, sel, vp) ==
    /\ ~Degenerate(item)
    /\ 10 * overlapArea(sel, OwnBox(item, vp)) >= 3 * item.width * item.height

RECURSIVE SumOfHeights(_, _)
SumOfHeights(items, ks) ==
    IF ks = {} THEN 0
    ELSE LET k == CHOOSE j \in ks : TRUE
         IN  items[k].height + SumOfHeights(items, ks \ {k})

\* among the runs ks, run k has a font size above 1.5 times the mean
HeadingCandidate(items, ks, k) ==
    2 * Cardinality(ks) * items[k].height > 3 * SumOfHeights(items, ks)

\* C26: a run with zero width or zero height never contributes to the
\* excerpt, a run whose coverage is below 0.30 does not contribute, a run
\* whose coverage is at least 0.30 contributes unless it is suppressed as a
\* heading, and a selection that covers no run area yields the empty excerpt.
C26_CoverageDecidesContribution ==
    [][TsExtractStep =>
        LET items == PageItems(pageTexts, appCurrentPage)
            ks == {k \in DOMAIN items : CoverageReached(items[k], selection, viewport)}
        IN  /\ \A k \in DOMAIN items :
                   /\ Degenerate(items[k]) => ~Appears(items[k], selectedText')
                   /\ k \notin ks => ~Appears(items[k], selectedText')
                   /\ (k \in ks /\ ~HeadingCandidate(items, ks, k))
                          => Appears(items[k], selectedText')
            /\ (\A k \in DOMAIN items :
                    Degenerate(items[k])
                    \/ overlapArea(selection, OwnBox(items[k], viewport)) = 0)
                   => selectedText' = EmptyStr]_vars

\* the step of onMouseUp that extracts the text under the selection box
ExtractStep ==
    /\ startPos # NoPos /\ startPos' = NoPos
    /\ selectionBox # NoBox
    /\ textCache[currentPage] # NoEntry

\* C21: of the runs kept for their coverage, a run whose font size exceeds
\* 1.5 times the mean font size of the kept runs is left out of the excerpt
\* unless such runs are more than half of the kept runs or at most 3 runs
\* were kept, and every other kept run is in the excerpt.
C21_HeadingsAreSuppressed ==
    [][ExtractStep =>
        LET entry == textCache[currentPage]
            items == PageItems(entry.doc, entry.page)
            ks == {k \in DOMAIN items :
                      Covered(selectionBox, ItemBox(items[k], entry.scale))}
            hs == {k \in ks : HeadingCandidate(items, ks, k)}
            keepHeadings == 2 * Cardinality(hs) > Cardinality(ks) \/ Cardinality(ks) <= 3
        IN  \A k \in ks :
                Appears(items[k], extractedText') <=> (k \notin hs \/ keepHeadings)]_vars

\* ------------------------------------------------------------------ properties of PDFViewer.tsx
\* a document is loaded and the viewer shows it (not the loading notice)
Displayed == pdfDocument # 0 /\ ~isLoading

\* C27: while a document is loaded and displayed the current page is within
\* 1..totalPages, and previous on page 1 and next on the last page leave the
\* page unchanged.
C27_PageStaysInRange ==
    /\ [](Displayed => appCurrentPage \in 1 .. appTotalPages)
    /\ [][(Displayed /\ appCurrentPage = 1 /\ goToPreviousPage)
              => appCurrentPage' = appCurrentPage]_vars
    /\ [][(Displayed /\ appCurrentPage = appTotalPages /\ goToNextPage)
              => appCurrentPage' = appCurrentPage]_vars

\* a loadPDF invocation ends in its catch
LoadFailedStep ==
    \E i \in DOMAIN loadPDFs : loadPDFs[i].pc # "failed" /\ loadPDFs'[i].pc = "failed"

\* the document, the page-text cache, the page count and the current page
\* describe one document (or none)
DescribeOneDocument ==
    /\ pageTexts = pdfDocument
    /\ appTotalPages = IF pdfDocument = 0 THEN 0 ELSE NumPages(pdfDocument)
    /\ pdfDocument # 0 => appCurrentPage \in 1 .. appTotalPages

\* C29: when a load fails, the loading flag is false again and the
\* document, page count, current page and page-text cache all describe the
\* same document.
C29_FailedLoadLeavesViewerConsistent ==
    [][LoadFailedStep => (~isLoading /\ DescribeOneDocument)']_vars

\* the n-th load has completed, nothing is loading, the scale is s, and the
\* canvas mounted after the load is still blank
LoadCompleted(n, s) ==
    /\ Len(loadPDFs) = n
    /\ loadPDFs[n].pc = "done"
    /\ ~isLoading
    /\ viewerScale = s
    /\ drawn = NoEntry

\* the current page of the document is on the canvas and the viewport is set
Rendered ==
    /\ viewport # NoViewport
    /\ drawn = [doc |-> pdfDocument, page |-> appCurrentPage, scale |-> viewerScale]

\* the user has chosen another file, another page or another scale
UserActedSince(n, s) ==
    Len(loadPDFs) # n \/ isLoading \/ appCurrentPage # 1 \/ viewerScale # s

\* C28: after a load has completed, the current page is eventually rendered
\* to the canvas with the viewport set, unless the user acts first.
C28_LoadedPageGetsRendered ==
    \A n \in 1 .. MaxTsLoads : \A s \in DefaultScale .. DefaultScale + MaxZoomSteps :
        LoadCompleted(n, s) ~> (Rendered \/ UserActedSince(n, s))

====
